---- MODULE Spec2Model ----
(***************************************************************************)
(* AnalizadorFutbol: temporal feature engineering (form, standings, H2H,   *)
(* feature pipeline) over the fixture store, the ensemble predictor and    *)
(* the walk-forward backtester of backend/src.                             *)
(*                                                                         *)
(* Seven state machines share this module:                                 *)
(*   Spec          - the fixture store and the feature pipeline            *)
(*   SpecBatch     - the fixture store and the batch runs of the pipeline  *)
(*   SpecPredictor - one EnsemblePredictor object and the model file       *)
(*   SpecBacktest  - ModelTrainer.backtest                                 *)
(*   SpecTrainer   - ModelTrainer.cross_validate and calculate_roi         *)
(*   SpecCache     - one APICache and the clock                            *)
(*   SpecJobs      - the training requests and their task threads          *)
(*                                                                         *)
(* Python floats are modelled as exact rationals <<num, den>> in lowest    *)
(* terms (den > 0).                                                        *)
(***************************************************************************)
EXTENDS Integers, Sequences, FiniteSets, TLC

VARIABLES
    fixtures,      \* rows of the fixtures table (db/models.py Fixture)
    inserts,       \* number of store writes performed so far
    computed,      \* outcome of the last calculate_fixture_features call, kept
                   \* while the store only receives later finished fixtures
    batch,         \* outcome of the last batch run of the feature pipeline
    pred,          \* the EnsemblePredictor object p
    loaded,        \* a second EnsemblePredictor object q, used for load()
    disk,          \* the model file models_dir/<name>_model.pkl
    env,           \* which optional classifiers are importable
    last,          \* outcome of the last predictor call
    fits,          \* number of fit calls made on p so far
    completed,     \* whether a fit or a load has returned on p
    calls,         \* number of inference calls made so far
    bt,            \* the local state of ModelTrainer.backtest
    tr,            \* outcome of the last cross_validate / calculate_roi call
    cache_dir,     \* the files of APICache.cache_dir, by key
    _stats,        \* APICache._stats
    now,           \* the reading of time.time(), in seconds
    stored,        \* per request, the last set() not yet cleared or invalidated
    cache_last,    \* outcome of the last cache call
    cache_ops,     \* number of cache calls made so far
    training_state,\* the global TrainingState object of the training router
    threads,       \* the task threads started so far, in order of start
    job_last       \* the response to the last training request

storeVars == <<fixtures, inserts, computed, batch>>
predVars  == <<pred, loaded, disk, last, fits, completed, calls>>
cacheVars == <<cache_dir, _stats, now, stored, cache_last, cache_ops>>
jobVars   == <<training_state, threads, job_last>>
restVars  == <<tr, cacheVars, jobVars>>
vars      == <<fixtures, inserts, computed, batch, pred, loaded, disk, env, last, fits,
               completed, calls, bt, restVars>>

\* Python's None for an Optional[int] column or argument (goals, result and
\* dates are never negative) and for an Optional[dict]
None     == -1
NoneDict == [none |-> TRUE]

(***************************************************************************)
(* Bounds of the model                                                     *)
(***************************************************************************)
MaxInserts == 1      \* store writes explored after the initial store
MaxFits    == 2      \* fit / train calls explored on one predictor object
MaxCalls   == 1      \* inference calls explored on the predictor objects
MaxRows    == 3      \* rows of a backtest dataset
MaxDate    == 2      \* distinct dates of a backtest dataset
MaxCVRows  == 4      \* rows of a cross-validation dataset

(***************************************************************************)
(* Exact rational arithmetic standing in for Python floats                 *)
(***************************************************************************)
Abs(n) == IF n < 0 THEN -n ELSE n

RECURSIVE GCD(_, _)
GCD(a, b) == IF b = 0 THEN a ELSE GCD(b, a % b)

Rat(a, b) ==
    LET g == GCD(Abs(a), Abs(b))
        s == IF b < 0 THEN -1 ELSE 1
    IN  <<(s * a) \div g, (s * b) \div g>>

Float(n)      == Rat(n, 1)
RatAdd(p, q)  == Rat(p[1] * q[2] + q[1] * p[2], p[2] * q[2])
RatSub(p, q)  == Rat(p[1] * q[2] - q[1] * p[2], p[2] * q[2])
RatMul(p, q)  == Rat(p[1] * q[1], p[2] * q[2])
RatDiv(p, q)  == Rat(p[1] * q[2], p[2] * q[1])
RatLT(p, q)   == p[1] * q[2] < q[1] * p[2]
RatLE(p, q)   == p[1] * q[2] <= q[1] * p[2]
RatGE(p, q)   == RatLE(q, p)
RatMax(p, q)  == IF RatLT(p, q) THEN q ELSE p

RECURSIVE SeqSum(_)
SeqSum(s) == IF s = <<>> THEN 0 ELSE Head(s) + SeqSum(Tail(s))

RECURSIVE RatSeqSum(_)
RatSeqSum(s) == IF s = <<>> THEN Float(0) ELSE RatAdd(Head(s), RatSeqSum(Tail(s)))

Min(a, b) == IF a < b THEN a ELSE b

\* the sum of g over the finite set S
RECURSIVE SumFn(_, _)
SumFn(S, g) == IF S = {} THEN 0
               ELSE LET x == CHOOSE y \in S : TRUE
                    IN  g[x] + SumFn(S \ {x}, g)

\* the sum of the rationals g over the finite set S
RECURSIVE RatSumFn(_, _)
RatSumFn(S, g) == IF S = {} THEN Float(0)
                  ELSE LET x == CHOOSE y \in S : TRUE
                       IN  RatAdd(g[x], RatSumFn(S \ {x}, g))

\* Python's `x or 0` on an Optional[int]
OrZero(x) == IF x = None THEN 0 ELSE x

\* dict.update(): the entries of `more` override those of `d`
Update(d, more) == more @@ d

(***************************************************************************)
(* The fixture store                                                       *)
(***************************************************************************)
Fixture(id, league, date, home, away, hg, ag, status, result) ==
    [id |-> id, league_id |-> league, season |-> 2024, date |-> date,
     home_team_id |-> home, away_team_id |-> away,
     home_goals |-> hg, away_goals |-> ag, status |-> status, result |-> result]

\* _parse_fixture storing a draw as an away win
_parse_fixture_draw_as_away(id, league, date, home, away, hg, ag, status) ==
    LET result == IF hg # None /\ ag # None
                  THEN IF hg > ag THEN 1 ELSE 0
                  ELSE None
    IN  Fixture(id, league, date, home, away, hg, ag, status, result)

\* FixtureCollector._parse_fixture: the binary result is derived from the goals
_parse_fixture(id, league, date, home, away, hg, ag, status) ==
    LET result == IF hg # None /\ ag # None
                  THEN IF hg > ag THEN 1 ELSE IF ag > hg THEN 0 ELSE None
                  ELSE None
    IN  Fixture(id, league, date, home, away, hg, ag, status, result)

\* query.order_by(Fixture.date.desc()).limit(n).all() over a set of rows whose
\* dates are pairwise distinct (a team has one kick-off per date)
RECURSIVE OrderByDateDesc(_, _)
OrderByDateDesc(S, n) ==
    IF S = {} \/ n = 0 THEN <<>>
    ELSE LET f == CHOOSE g \in S : \A h \in S : h.date <= g.date
         IN  <<f>> \o OrderByDateDesc(S \ {f}, n - 1)

Involves(f, team_id) == f.home_team_id = team_id \/ f.away_team_id = team_id

\* FixtureRepository.get_team_fixtures(team_id, limit=n): no date or status
\* filter, newest first
get_team_fixtures(team_id, n) ==
    OrderByDateDesc({f \in fixtures : Involves(f, team_id)}, n)

\* FixtureRepository.get_by_id
get_by_id(id) ==
    IF \E f \in fixtures : f.id = id
    THEN CHOOSE f \in fixtures : f.id = id
    ELSE NoneDict

(***************************************************************************)
(* Form Calculator (data/features/form_calculator.py)                      *)
(***************************************************************************)
WINDOWS == <<3, 5, 10>>

EmptyDict == [k \in {} |-> Float(0)]

\* _get_recent_fixtures without the status filter
_get_recent_fixtures_any_status(team_id, before_date, limit) ==
    OrderByDateDesc({f \in fixtures : /\ f.date < before_date
                                      /\ Involves(f, team_id)}, limit)

\* FormCalculator._get_recent_fixtures: finished fixtures of the team dated
\* strictly before before_date, newest first, at most `limit`
_get_recent_fixtures(team_id, before_date, limit) ==
    OrderByDateDesc({f \in fixtures : /\ f.date < before_date
                                      /\ f.status = "FT"
                                      /\ Involves(f, team_id)}, limit)

\* goals of the team / of its opponent in fixture f (`or 0` included)
GoalsFor(f, team_id) ==
    IF f.home_team_id = team_id THEN OrZero(f.home_goals) ELSE OrZero(f.away_goals)
GoalsAgainst(f, team_id) ==
    IF f.home_team_id = team_id THEN OrZero(f.away_goals) ELSE OrZero(f.home_goals)

won(f, team_id)  == GoalsFor(f, team_id) > GoalsAgainst(f, team_id)
drew(f, team_id) == GoalsFor(f, team_id) = GoalsAgainst(f, team_id)
lost(f, team_id) == GoalsFor(f, team_id) < GoalsAgainst(f, team_id)

\* sum(1 for f in fs if ...) for the three outcomes
Wins(fs, team_id)   == Cardinality({i \in DOMAIN fs : won(fs[i], team_id)})
Draws(fs, team_id)  == Cardinality({i \in DOMAIN fs : drew(fs[i], team_id)})
Losses(fs, team_id) == Cardinality({i \in DOMAIN fs : lost(fs[i], team_id)})

\* FormCalculator._calculate_points
_calculate_points(fs, team_id) ==
    SeqSum([i \in DOMAIN fs |->
              IF won(fs[i], team_id) THEN 3
              ELSE IF drew(fs[i], team_id) THEN 1 ELSE 0])

\* FormCalculator._calculate_goals
_calculate_goals(fs, team_id) ==
    <<SeqSum([i \in DOMAIN fs |-> GoalsFor(fs[i], team_id)]),
      SeqSum([i \in DOMAIN fs |-> GoalsAgainst(fs[i], team_id)])>>

\* FormCalculator._calculate_wins_draws_losses
_calculate_wins_draws_losses(fs, team_id) ==
    <<Wins(fs, team_id), Draws(fs, team_id), Losses(fs, team_id)>>

\* FormCalculator._calculate_clean_sheets
_calculate_clean_sheets(fs, team_id) ==
    <<Cardinality({i \in DOMAIN fs : GoalsAgainst(fs[i], team_id) = 0}),
      Cardinality({i \in DOMAIN fs : GoalsFor(fs[i], team_id) = 0})>>

\* One iteration of the loop of _calculate_streak on the running counters
\* (the `>= 0` tests of the source are always true: no counter goes negative)
StreakStep(st, f, team_id) ==
    IF won(f, team_id)
    THEN [win_streak      |-> IF st.win_streak >= 0
                              THEN st.win_streak + 1 ELSE st.win_streak,
          unbeaten_streak |-> IF st.unbeaten_streak >= 0
                              THEN st.unbeaten_streak + 1 ELSE st.unbeaten_streak,
          winless_streak  |-> 0]
    ELSE IF drew(f, team_id)
    THEN [win_streak      |-> 0,
          unbeaten_streak |-> IF st.unbeaten_streak >= 0
                              THEN st.unbeaten_streak + 1 ELSE st.unbeaten_streak,
          winless_streak  |-> IF st.winless_streak >= 0
                              THEN st.winless_streak + 1 ELSE st.winless_streak]
    ELSE [win_streak      |-> 0,
          unbeaten_streak |-> 0,
          winless_streak  |-> IF st.winless_streak >= 0
                              THEN st.winless_streak + 1 ELSE st.winless_streak]

RECURSIVE StreakLoop(_, _, _)
StreakLoop(st, fs, team_id) ==
    IF fs = <<>> THEN st
    ELSE StreakLoop(StreakStep(st, Head(fs), team_id), Tail(fs), team_id)

\* FormCalculator._calculate_streak: the loop runs over the whole list,
\* newest fixture first, and never stops at the first break
_calculate_streak(fs, team_id) ==
    StreakLoop([win_streak |-> 0, unbeaten_streak |-> 0, winless_streak |-> 0],
               fs, team_id)

Take(s, n) == SubSeq(s, 1, Min(n, Len(s)))

\* the 13 features of one window w (lines 267-309)
WindowFeatures(fs, team_id, prefix, w) ==
    LET wf == Take(fs, w)
        n  == Len(wf)
        k  == ToString(w)
        points == _calculate_points(wf, team_id)
        g   == _calculate_goals(wf, team_id)
        wdl == _calculate_wins_draws_losses(wf, team_id)
        cs  == _calculate_clean_sheets(wf, team_id)
        Name(stem) == prefix \o stem \o k
    IN  IF n = 0
        THEN [key \in {Name("points_last_"), Name("points_avg_"),
                       Name("goals_for_last_"), Name("goals_against_last_"),
                       Name("goals_for_avg_"), Name("goals_against_avg_"),
                       Name("goal_diff_"), Name("wins_last_"),
                       Name("draws_last_"), Name("losses_last_"),
                       Name("win_rate_"), Name("clean_sheets_"),
                       Name("failed_to_score_")} |-> Float(0)]
        ELSE    (Name("points_last_")        :> Float(points))
             @@ (Name("points_avg_")         :> Rat(points, n))
             @@ (Name("goals_for_last_")     :> Float(g[1]))
             @@ (Name("goals_against_last_") :> Float(g[2]))
             @@ (Name("goals_for_avg_")      :> Rat(g[1], n))
             @@ (Name("goals_against_avg_")  :> Rat(g[2], n))
             @@ (Name("goal_diff_")          :> Float(g[1] - g[2]))
             @@ (Name("wins_last_")          :> Float(wdl[1]))
             @@ (Name("draws_last_")         :> Float(wdl[2]))
             @@ (Name("losses_last_")        :> Float(wdl[3]))
             @@ (Name("win_rate_")           :> Rat(wdl[1], n))
             @@ (Name("clean_sheets_")       :> Float(cs[1]))
             @@ (Name("failed_to_score_")    :> Float(cs[2]))

\* FormCalculator.calculate_form_features
calculate_form_features(team_id, before_date, prefix) ==
    LET fs == _get_recent_fixtures(team_id, before_date, 10)
        streaks == IF fs # <<>>
                   THEN _calculate_streak(Take(fs, 10), team_id)
                   ELSE [win_streak |-> 0, unbeaten_streak |-> 0,
                         winless_streak |-> 0]
    IN     WindowFeatures(fs, team_id, prefix, WINDOWS[1])
        @@ WindowFeatures(fs, team_id, prefix, WINDOWS[2])
        @@ WindowFeatures(fs, team_id, prefix, WINDOWS[3])
        @@ ((prefix \o "win_streak")      :> Float(streaks.win_streak))
        @@ ((prefix \o "unbeaten_streak") :> Float(streaks.unbeaten_streak))
        @@ ((prefix \o "winless_streak")  :> Float(streaks.winless_streak))

TeamFixturesLimit == 20     \* get_team_fixtures(team_id, limit=20)
VenueFormLimit    == 5      \* `if len(filtered) >= 5: break`

\* the filter loop of calculate_home_away_form over the rows in their order
RECURSIVE VenueFilter(_, _, _, _, _)
VenueFilter(fs, team_id, before_date, is_home, acc) ==
    IF fs = <<>> THEN acc
    ELSE LET f == Head(fs)
             keep == /\ f.date < before_date
                     /\ f.status = "FT"
                     /\ IF is_home THEN f.home_team_id = team_id
                                   ELSE f.away_team_id = team_id
             acc2 == IF keep THEN Append(acc, f) ELSE acc
         IN  IF f.date < before_date /\ f.status = "FT"
                /\ Len(acc2) >= VenueFormLimit
             THEN acc2
             ELSE VenueFilter(Tail(fs), team_id, before_date, is_home, acc2)

\* FormCalculator.calculate_home_away_form: the candidate rows are the 20
\* newest fixtures of the team whatever their date or status
calculate_home_away_form(team_id, before_date, is_home) ==
    LET prefix == IF is_home THEN "home_" ELSE "away_"
        filtered == VenueFilter(get_team_fixtures(team_id, TeamFixturesLimit),
                                team_id, before_date, is_home, <<>>)
        n == Len(filtered)
    IN  IF n = 0
        THEN    ((prefix \o "form_points_5")  :> Float(0))
             @@ ((prefix \o "form_goals_avg") :> Float(0))
        ELSE    ((prefix \o "form_points_5")  :>
                     Float(_calculate_points(filtered, team_id)))
             @@ ((prefix \o "form_goals_avg") :>
                     Rat(_calculate_goals(filtered, team_id)[1], n))

(***************************************************************************)
(* Standings Calculator (data/features/standings_calculator.py)            *)
(***************************************************************************)
DefaultRank == 10     \* 'rank': 10 in _get_standing, 10.0 in the defaults

\* the query of _get_standing without its league_id condition
LeagueFixtures_any_league(league_id, season, before_date) ==
    {f \in fixtures : /\ f.season = season
                      /\ f.status = "FT"
                      /\ (before_date # None => f.date < before_date)}

\* the rows selected by the query of _get_standing / _calculate_rank
LeagueFixtures(league_id, season, before_date) ==
    {f \in fixtures : /\ f.league_id = league_id
                      /\ f.season = season
                      /\ f.status = "FT"
                      /\ (before_date # None => f.date < before_date)}

\* StandingsCalculator._get_standing: None without rows, else the statistics
\* summed over the rows; 'rank' keeps its initial value 10
_get_standing(team_id, league_id, season, before_date) ==
    LET rows == {f \in LeagueFixtures(league_id, season, before_date) :
                     Involves(f, team_id)}
        H == {f \in rows : f.home_team_id = team_id}
        A == rows \ H
        W(S) == Cardinality({f \in S : won(f, team_id)})
        D(S) == Cardinality({f \in S : drew(f, team_id)})
        L(S) == Cardinality({f \in S : lost(f, team_id)})
        GF(S) == SumFn(S, [f \in S |-> GoalsFor(f, team_id)])
        GA(S) == SumFn(S, [f \in S |-> GoalsAgainst(f, team_id)])
    IN  IF rows = {} THEN NoneDict
        ELSE [rank |-> DefaultRank,
              points |-> 3 * W(rows) + D(rows),
              goals_diff |-> GF(rows) - GA(rows),
              played |-> Cardinality(rows),
              win |-> W(rows), draw |-> D(rows), lose |-> L(rows),
              goals_for |-> GF(rows), goals_against |-> GA(rows),
              home_played |-> Cardinality(H),
              home_win |-> W(H), home_draw |-> D(H), home_lose |-> L(H),
              home_goals_for |-> GF(H), home_goals_against |-> GA(H),
              away_played |-> Cardinality(A),
              away_win |-> W(A), away_draw |-> D(A), away_lose |-> L(A),
              away_goals_for |-> GF(A), away_goals_against |-> GA(A)]

\* points and goal difference of team tid over the league rows (lines 172-192)
TeamPoints(tid, rows) ==
    LET mine == {f \in rows : Involves(f, tid)}
        Gd(S) == SumFn(S, [f \in S |-> GoalsFor(f, tid) - GoalsAgainst(f, tid)])
    IN  <<3 * Cardinality({f \in mine : won(f, tid)})
            + Cardinality({f \in mine : drew(f, tid)}),
          Gd(mine)>>

\* StandingsCalculator._calculate_rank: the first position of the list sorted
\* by (points, goal difference) descending whose entry equals the team's
\* (points, goal difference).  No caller exists in the repository.
_calculate_rank(team_stats, league_id, season, before_date) ==
    LET rows == LeagueFixtures(league_id, season, before_date)
        team_ids == {f.home_team_id : f \in rows} \cup {f.away_team_id : f \in rows}
        Better(p, q) == p[1] > q[1] \/ (p[1] = q[1] /\ p[2] > q[2])
        target == <<team_stats.points, team_stats.goals_diff>>
    IN  IF rows = {} THEN DefaultRank
        ELSE IF \E tid \in team_ids : TeamPoints(tid, rows) = target
        THEN 1 + Cardinality({tid \in team_ids :
                                 Better(TeamPoints(tid, rows), target)})
        ELSE DefaultRank

\* Python's `x or 1`
OrOne(x) == IF x = 0 THEN 1 ELSE x

\* the features built from the statistics of a team with history (lines 243-283)
StandingFeatures(standing, prefix, played, home_played, away_played) ==
       ((prefix \o "position")  :> Float(standing.rank))
    @@ ((prefix \o "points")    :> Float(standing.points))
    @@ ((prefix \o "goal_diff") :> Float(standing.goals_diff))
    @@ ((prefix \o "ppg")       :> Rat(standing.points, played))
    @@ ((prefix \o "played")    :> Float(standing.played))
    @@ ((prefix \o "wins")      :> Float(standing.win))
    @@ ((prefix \o "draws")     :> Float(standing.draw))
    @@ ((prefix \o "losses")    :> Float(standing.lose))
    @@ ((prefix \o "goals_for") :> Float(standing.goals_for))
    @@ ((prefix \o "goals_against") :> Float(standing.goals_against))
    @@ ((prefix \o "win_ratio") :> Rat(standing.win, played))
    @@ ((prefix \o "goals_per_game") :> Rat(standing.goals_for, played))
    @@ ((prefix \o "conceded_per_game") :> Rat(standing.goals_against, played))
    @@ ((prefix \o "home_wins") :> Float(standing.home_win))
    @@ ((prefix \o "home_ppg")  :>
            Rat(standing.home_win * 3 + standing.home_draw, home_played))
    @@ ((prefix \o "home_goals_per_game") :>
            Rat(standing.home_goals_for, home_played))
    @@ ((prefix \o "away_wins") :> Float(standing.away_win))
    @@ ((prefix \o "away_ppg")  :>
            Rat(standing.away_win * 3 + standing.away_draw, away_played))
    @@ ((prefix \o "away_goals_per_game") :>
            Rat(standing.away_goals_for, away_played))

\* the four defaults returned for a team without rows (lines 232-241), else
\* the features of its statistics
StandingOrDefault(standing, prefix) ==
    IF standing = NoneDict
    THEN    ((prefix \o "position")  :> Float(DefaultRank))
         @@ ((prefix \o "points")    :> Float(0))
         @@ ((prefix \o "goal_diff") :> Float(0))
         @@ ((prefix \o "ppg")       :> Float(0))
    ELSE StandingFeatures(standing, prefix, OrOne(standing.played),
                          OrOne(standing.home_played), OrOne(standing.away_played))

\* StandingsCalculator.calculate_standing_features
calculate_standing_features(team_id, league_id, season, prefix, before_date) ==
    StandingOrDefault(_get_standing(team_id, league_id, season, before_date), prefix)

\* a Python call that either returns a value or raises
Ok(v)      == [ok |-> TRUE, value |-> v]
Raise(e)   == [ok |-> FALSE, error |-> e]

\* the body of calculate_relative_features on the two feature dicts (lines
\* 313-336): the five differences are read with d[key], which raises KeyError
\* on a key the dict does not hold
RelativeFeatures(home_features, away_features) ==
    LET needed == {"position", "points", "goal_diff", "ppg", "win_ratio"}
        Diff(stem) == RatSub(home_features["home_" \o stem],
                             away_features["away_" \o stem])
    IN  IF \E stem \in needed :
              \/ ("home_" \o stem) \notin DOMAIN home_features
              \/ ("away_" \o stem) \notin DOMAIN away_features
        THEN Raise("KeyError")
        ELSE Ok(Update(Update(home_features, away_features),
                          ("diff_position"  :> Diff("position"))
                       @@ ("diff_points"    :> Diff("points"))
                       @@ ("diff_goal_diff" :> Diff("goal_diff"))
                       @@ ("diff_ppg"       :> Diff("ppg"))
                       @@ ("diff_win_ratio" :> Diff("win_ratio"))))

\* StandingsCalculator.calculate_relative_features
calculate_relative_features(home_team_id, away_team_id, league_id, season, before_date) ==
    RelativeFeatures(
        calculate_standing_features(home_team_id, league_id, season, "home_",
                                    before_date),
        calculate_standing_features(away_team_id, league_id, season, "away_",
                                    before_date))

(***************************************************************************)
(* Head-to-Head Calculator (data/features/h2h_calculator.py)               *)
(***************************************************************************)
H2HLimit       == 10    \* _get_h2h_fixtures(..., limit=10)
H2HRecentLimit == 5     \* recent = fixtures[:5]

\* _get_h2h_fixtures selecting only the meetings played at team1's ground
_get_h2h_fixtures_one_venue(team1_id, team2_id, before_date, limit) ==
    OrderByDateDesc(
        {f \in fixtures :
            /\ f.date < before_date
            /\ f.status = "FT"
            /\ f.home_team_id = team1_id /\ f.away_team_id = team2_id},
        limit)

\* H2HCalculator._get_h2h_fixtures
_get_h2h_fixtures(team1_id, team2_id, before_date, limit) ==
    OrderByDateDesc(
        {f \in fixtures :
            /\ f.date < before_date
            /\ f.status = "FT"
            /\ \/ (f.home_team_id = team1_id /\ f.away_team_id = team2_id)
               \/ (f.home_team_id = team2_id /\ f.away_team_id = team1_id)},
        limit)

\* H2HCalculator.calculate_h2h_features
calculate_h2h_features(home_team_id, away_team_id, before_date) ==
    LET fs == _get_h2h_fixtures(home_team_id, away_team_id, before_date, H2HLimit)
        n  == Len(fs)
        home_wins  == Wins(fs, home_team_id)
        away_wins  == Losses(fs, home_team_id)
        draws      == Draws(fs, home_team_id)
        home_goals == SeqSum([i \in DOMAIN fs |-> GoalsFor(fs[i], home_team_id)])
        away_goals == SeqSum([i \in DOMAIN fs |-> GoalsAgainst(fs[i], home_team_id)])
        recent     == Take(fs, H2HRecentLimit)
        recent_home_wins == Wins(recent, home_team_id)
    IN  IF n = 0
        THEN    ("h2h_total_matches"  :> Float(0))
             @@ ("h2h_home_wins"      :> Float(0))
             @@ ("h2h_away_wins"      :> Float(0))
             @@ ("h2h_draws"          :> Float(0))
             @@ ("h2h_home_win_rate"  :> Rat(1, 2))
             @@ ("h2h_home_goals_avg" :> Float(0))
             @@ ("h2h_away_goals_avg" :> Float(0))
        ELSE    ("h2h_total_matches"   :> Float(n))
             @@ ("h2h_home_wins"       :> Float(home_wins))
             @@ ("h2h_away_wins"       :> Float(away_wins))
             @@ ("h2h_draws"           :> Float(draws))
             @@ ("h2h_home_win_rate"   :> Rat(home_wins, n))
             @@ ("h2h_away_win_rate"   :> Rat(away_wins, n))
             @@ ("h2h_draw_rate"       :> Rat(draws, n))
             @@ ("h2h_home_goals_avg"  :> Rat(home_goals, n))
             @@ ("h2h_away_goals_avg"  :> Rat(away_goals, n))
             @@ ("h2h_total_goals_avg" :> Rat(home_goals + away_goals, n))
             @@ ("h2h_dominance"       :> Rat(home_wins - away_wins, n))
             @@ ("h2h_recent_home_wins" :> Float(recent_home_wins))
             @@ ("h2h_recent_home_rate" :> Rat(recent_home_wins, Len(recent)))

(***************************************************************************)
(* Feature Pipeline (data/features/pipeline.py)                            *)
(***************************************************************************)
\* dict.get(key, default)
Get(d, key, default) == IF key \in DOMAIN d THEN d[key] ELSE default

\* FeaturePipeline._calculate_derived_features
_calculate_derived_features(features) ==
    LET Has(k) == k \in DOMAIN features
        home_attack  == Get(features, "home_goals_for_avg_5", Float(0))
        away_defense == Get(features, "away_goals_against_avg_5", Float(1))
        away_attack  == Get(features, "away_goals_for_avg_5", Float(0))
        home_defense == Get(features, "home_goals_against_avg_5", Float(1))
        home_pos == Get(features, "home_position", Float(10))
        away_pos == Get(features, "away_position", Float(10))
        Momentum(side) ==
            LET p5  == Get(features, side \o "points_last_5", Float(0))
                p10 == Get(features, side \o "points_last_10", Float(0))
            IN  IF RatLT(Float(0), p10)
                THEN RatDiv(p5, RatDiv(p10, Float(2)))
                ELSE Float(1)
    IN     (IF Has("home_points_last_5") /\ Has("away_points_last_5")
            THEN "diff_form_points_5" :>
                     RatSub(features["home_points_last_5"],
                            features["away_points_last_5"])
            ELSE EmptyDict)
        @@ (IF Has("home_goals_for_avg_5") /\ Has("away_goals_for_avg_5")
            THEN "diff_attack_strength" :>
                     RatSub(features["home_goals_for_avg_5"],
                            features["away_goals_for_avg_5"])
            ELSE EmptyDict)
        @@ (IF Has("home_goals_against_avg_5") /\ Has("away_goals_against_avg_5")
            THEN "diff_defense_strength" :>
                     RatSub(features["away_goals_against_avg_5"],
                            features["home_goals_against_avg_5"])
            ELSE EmptyDict)
        @@ ("home_attack_vs_away_defense" :> RatSub(home_attack, away_defense))
        @@ ("away_attack_vs_home_defense" :> RatSub(away_attack, home_defense))
        @@ ("position_advantage" :> RatSub(away_pos, home_pos))
        @@ ("home_momentum" :> Momentum("home_"))
        @@ ("away_momentum" :> Momentum("away_"))

\* features.update(self._calculate_derived_features(features)) (line 110)
WithDerived(features) == Update(features, _calculate_derived_features(features))

\* the target of calculate_fixture_features (lines 112-115)
Target(fixture) ==
    IF fixture.status = "FT" /\ fixture.result # None
    THEN fixture.result ELSE None

\* lines 97-126 of calculate_fixture_features, given the form features and the
\* outcome of calculate_relative_features
MatchFeatures(fixture, form, standings) ==
    IF ~standings.ok THEN standings
    ELSE Ok([fixture_id |-> fixture.id,
             home_team_id |-> fixture.home_team_id,
             away_team_id |-> fixture.away_team_id,
             league_id |-> fixture.league_id, season |-> fixture.season,
             date |-> fixture.date,
             features |->
                 WithDerived(
                     Update(Update(form, standings.value),
                            calculate_h2h_features(fixture.home_team_id,
                                                   fixture.away_team_id,
                                                   fixture.date))),
             target |-> Target(fixture)])

\* FeaturePipeline.calculate_fixture_features: a MatchFeatures value, or the
\* exception that leaves the function
calculate_fixture_features(fixture) ==
    MatchFeatures(
        fixture,
        Update(Update(Update(
            calculate_form_features(fixture.home_team_id, fixture.date, "home_"),
            calculate_form_features(fixture.away_team_id, fixture.date, "away_")),
            calculate_home_away_form(fixture.home_team_id, fixture.date, TRUE)),
            calculate_home_away_form(fixture.away_team_id, fixture.date, FALSE)),
        calculate_relative_features(fixture.home_team_id, fixture.away_team_id,
                                    fixture.league_id, fixture.season,
                                    fixture.date))

(***************************************************************************)
(* The store and the pipeline as a state machine                           *)
(***************************************************************************)
\* what the API can report for the early fixture with id = date = d
\* (league 1 is the championship, league 2 a cup)
SlotOptions(d) ==
    { _parse_fixture(d, 1, d, 1, 2, 2, 0, "FT"),
      _parse_fixture(d, 1, d, 2, 1, 1, 1, "FT"),
      _parse_fixture(d, 1, d, 2, 1, 2, 0, "FT"),
      _parse_fixture(d, 2, d, 3, 1, 1, 0, "FT"),
      _parse_fixture(d, 1, d, 1, 2, None, None, "NS") }

EarlyDates == 1..3

\* the i-th fixture of the rest of team 1's season: one per date after the
\* early dates, venue alternating, all finished
LaterFixture(i) ==
    IF i % 2 = 1
    THEN _parse_fixture(100 + i, 1, 3 + i, 1, 3, 1, 0, "FT")
    ELSE _parse_fixture(100 + i, 1, 3 + i, 4, 1, 2, 2, "FT")

\* a season in progress: team 1 has played two fixtures fewer than the number
\* calculate_home_away_form reads
SeasonRest == TeamFixturesLimit - 2

LaterBlock(k) == {LaterFixture(i) : i \in 1..k}

LastDate == 3 + SeasonRest + 1

\* fixtures a later sync can bring: new ids 50.., any date, a first meeting
\* of teams 3 and 4, and the early fixture 3 reported while it is being played
SyncCandidates ==
    { _parse_fixture(50, 1, LastDate, 1, 2, 2, 0, "FT"),
      _parse_fixture(51, 1, 2, 3, 4, 0, 3, "FT"),
      _parse_fixture(52, 1, LastDate + 1, 2, 1, None, None, "NS"),
      _parse_fixture(53, 1, LastDate + 1, 3, 4, None, None, "NS"),
      _parse_fixture(3, 1, 3, 1, 2, 1, 0, "2H") }

\* the results update_result is called with
ResultInputs == {<<1, 0>>, <<1, 1>>}

\* the fixtures whose features are requested: the early and the synced ones
Requested == {f \in fixtures : f.id < 100}

\* a team has one kick-off per date
OnePerTeamDate(S) ==
    {f \in S :
        \E g \in S :
            /\ f # g
            /\ f.date = g.date
            /\ {f.home_team_id, f.away_team_id} \cap
                 {g.home_team_id, g.away_team_id} # {}} = {}

NotComputed == [fixture_id |-> None]

\* no batch has run on the store as it is
NoBatch == [op |-> "none"]

\* no cross_validate or calculate_roi call has been made
NoCall == [op |-> "none"]

\* writing `data` adds a new finished fixture dated on or after the fixture
\* whose features were last computed
LaterInsert(data) ==
    /\ computed.fixture_id # None
    /\ data.id \notin {f.id : f \in fixtures}
    /\ data.status = "FT"
    /\ data.date >= get_by_id(computed.fixture_id).date

\* FixtureRepository.upsert of a parsed fixture (sync_fixtures_by_date /
\* sync_fixtures_by_league): the row with that id is replaced or added
Upsert(data) ==
    /\ inserts < MaxInserts
    /\ LET others == {f \in fixtures : f.id # data.id}
       IN  /\ OnePerTeamDate(others \cup {data})
           /\ fixtures' = others \cup {data}
    /\ inserts' = inserts + 1
    /\ computed' = IF LaterInsert(data) THEN computed ELSE NotComputed
    /\ batch' = NoBatch
    /\ UNCHANGED <<predVars, env, bt, restVars>>

\* FixtureRepository.update_result(fixture_id, home_goals, away_goals)
UpdateResult(fixture_id, home_goals, away_goals) ==
    /\ inserts < MaxInserts
    /\ LET fixture == get_by_id(fixture_id)
       IN  IF fixture = NoneDict
           THEN fixtures' = fixtures
           ELSE fixtures' = (fixtures \ {fixture}) \cup
                  {[fixture EXCEPT
                      !.home_goals = home_goals,
                      !.away_goals = away_goals,
                      !.status = "FT",
                      !.result = IF home_goals > away_goals THEN 1
                                 ELSE IF away_goals > home_goals THEN 0
                                 ELSE None]}
    /\ inserts' = inserts + 1
    /\ computed' = NotComputed
    /\ batch' = NoBatch
    /\ UNCHANGED <<predVars, env, bt, restVars>>

\* FeaturePipeline.calculate_fixture_features(fixture) on a stored fixture
ComputeFeatures(fixture) ==
    /\ computed' = [fixture_id |-> fixture.id,
                    result |-> calculate_fixture_features(fixture)]
    /\ UNCHANGED <<fixtures, inserts, batch, predVars, env, bt, restVars>>

(***************************************************************************)
(* Batch runs of the pipeline (data/features/pipeline.py, lines 190-285)   *)
(***************************************************************************)
\* query.all() without ORDER BY: the rows are listed by primary key
RECURSIVE OrderById(_)
OrderById(S) ==
    IF S = {} THEN <<>>
    ELSE LET f == CHOOSE g \in S : \A h \in S : g.id <= h.id
         IN  <<f>> \o OrderById(S \ {f})

\* FixtureRepository.get_finished_fixtures(exclude_draws)
get_finished_fixtures(exclude_draws) ==
    OrderById({f \in fixtures : /\ f.status = "FT"
                                /\ (exclude_draws => f.result # None)})

\* a logger.info message with the numbers it states, and a logger.warning
\* message about one fixture
NoCounts == [k \in {} |-> 0]
Info(text, counts) == [level |-> "info", text |-> text, counts |-> counts]
Warning(text, fixture_id, error) ==
    [level |-> "warning", text |-> text, counts |-> NoCounts,
     fixture_id |-> fixture_id, error |-> error]

\* the dict `row` of generate_training_dataset: the six identifying entries
\* and the target, then **match_features.features
TrainingRow(mf) ==
    Update(   ("fixture_id"   :> mf.fixture_id)
           @@ ("home_team_id" :> mf.home_team_id)
           @@ ("away_team_id" :> mf.away_team_id)
           @@ ("league_id"    :> mf.league_id)
           @@ ("season"       :> mf.season)
           @@ ("date"         :> mf.date)
           @@ ("target"       :> mf.target),
           mf.features)

\* the for loop of generate_training_dataset over fixtures[i..n] (i counts
\* from 1): a row per fixture whose features are computed, a warning and
\* `continue` per fixture whose computation raises
RECURSIVE DatasetLoop(_, _, _, _, _)
RECURSIVE DatasetStep(_, _, _, _, _, _)
DatasetLoop(fs, i, n, data, log) ==
    IF i > n THEN [data |-> data, log |-> log]
    ELSE DatasetStep(fs, i, n, data, log, calculate_fixture_features(fs[i]))

DatasetStep(fs, i, n, data, log, r) ==
    IF r.ok
    THEN DatasetLoop(fs, i + 1, n, Append(data, TrainingRow(r.value)),
                     IF i % 50 = 0
                     THEN Append(log, Info("Procesados",
                                           ("procesados" :> i) @@ ("partidos" :> n)))
                     ELSE log)
    ELSE DatasetLoop(fs, i + 1, n, data,
                     Append(log, Warning("Error procesando fixture",
                                         fs[i].id, r.error)))

\* len(df.columns) of pd.DataFrame(data)
len_columns(data) == Cardinality(UNION {DOMAIN data[i] : i \in DOMAIN data})

\* the end of generate_training_dataset: the frame and the closing message
DatasetResult(loop) ==
    [df  |-> loop.data,
     log |-> Append(loop.log,
                    Info("Dataset generado",
                         ("filas" :> Len(loop.data))
                         @@ ("columnas" :> len_columns(loop.data))))]

\* a list comprehension [f for f in fs if keep]
RECURSIVE Filter(_, _)
Filter(fs, keep) ==
    IF fs = <<>> THEN <<>>
    ELSE (IF Head(fs) \in keep THEN <<Head(fs)>> ELSE <<>>)
         \o Filter(Tail(fs), keep)

\* FeaturePipeline.generate_training_dataset; league_ids = {} stands for
\* None or an empty list and season = None for None or 0, both falsy
generate_training_dataset(league_ids, season, exclude_draws) ==
    LET all == get_finished_fixtures(exclude_draws)
        keep == {f \in fixtures :
                   /\ (league_ids # {} => f.league_id \in league_ids)
                   /\ (season # None => f.season = season)}
        selected == Filter(all, keep)
        log == << Info("Generando dataset de entrenamiento", NoCounts),
                  Info("Procesando", ("partidos" :> Len(selected))) >>
    IN  DatasetResult(DatasetLoop(selected, 1, Len(selected), <<>>, log))

\* the for loop of generate_prediction_features
RECURSIVE PredictionLoop(_, _, _)
RECURSIVE PredictionStep(_, _, _, _)
PredictionLoop(fs, results, log) ==
    IF fs = <<>> THEN [results |-> results, log |-> log]
    ELSE PredictionStep(fs, results, log, calculate_fixture_features(Head(fs)))

PredictionStep(fs, results, log, r) ==
    IF r.ok
    THEN PredictionLoop(Tail(fs), Append(results, r.value), log)
    ELSE PredictionLoop(Tail(fs), results,
                        Append(log, Warning("Error en fixture", Head(fs).id,
                                            r.error)))

\* FeaturePipeline.generate_prediction_features
generate_prediction_features(fs) == PredictionLoop(fs, <<>>, <<>>)

\* the arguments generate_training_dataset is called with
TrainingArgs == { <<{}, None, TRUE>>, <<{1}, 2024, FALSE>>, <<{2}, None, TRUE>> }

\* the lists generate_prediction_features is called with: the pending
\* fixtures (scheduler.py), or the early and the synced ones
PredictionLists ==
    { OrderById({f \in fixtures : f.status = "NS"}), OrderById(Requested) }

\* A batch run leaves the store as it is, so a run that follows another on
\* the same store ends in a state a first run also ends in: the runs are
\* taken from the states that record none.
GenerateTrainingDataset(league_ids, season, exclude_draws) ==
    /\ batch = NoBatch
    /\ LET r == generate_training_dataset(league_ids, season, exclude_draws)
       IN  batch' = [op |-> "generate_training_dataset",
                     league_ids |-> league_ids, season |-> season,
                     exclude_draws |-> exclude_draws,
                     out |-> Ok(r.df), log |-> r.log]
    /\ UNCHANGED <<fixtures, inserts, computed, predVars, env, bt, restVars>>

GeneratePredictionFeatures(fs) ==
    /\ batch = NoBatch
    /\ LET r == generate_prediction_features(fs)
       IN  batch' = [op |-> "generate_prediction_features", fixtures |-> fs,
                     out |-> Ok(r.results), log |-> r.log]
    /\ UNCHANGED <<fixtures, inserts, computed, predVars, env, bt, restVars>>

(***************************************************************************)
(* Ensemble Predictor (models/base_predictor.py, ensemble_predictor.py)    *)
(***************************************************************************)
ModelOrder == <<"logreg", "xgboost", "lightgbm">>   \* dict insertion order

\* Training sets handed to fit: 1 and 2 are valid two-class datasets, 0 is a
\* dataset too small for the stratified train_test_split, which raises
TooSmall == 0
Datasets == {0, 1, 2}
Inputs   == {<<1>>, <<2, 1>>}

\* the frames handed to get_predictions_with_confidence
Frames == {<<1, 2, 1>>, <<1, 3, 2>>}

\* the min_confidence values of get_predictions_with_confidence (default 0.75)
Thresholds == {Rat(7, 10), Rat(3, 4)}

\* the estimators that raise in one predict_proba / calibration call
FailSets    == {{}, {"logreg"}, {"xgboost", "lightgbm"}}
CalFailSets == {{}, {"xgboost"}}

Columns(ds) == <<"home_points_last_5", "away_points_last_5">>

\* a freshly constructed sklearn / xgboost / lightgbm estimator
Unfitted(name) == [kind |-> name, fitted |-> FALSE, ds |-> None, calibrated |-> FALSE]
Fitted(name, ds) == [kind |-> name, fitted |-> TRUE, ds |-> ds, calibrated |-> FALSE]
\* CalibratedClassifierCV(model, cv="prefit") after its fit on the held-out split
Calibrated(m) == [m EXCEPT !.calibrated = TRUE]

\* P(home win) a fitted estimator returns for a row: what was learned depends
\* on the estimator kind, on the training set and on the calibration; a row
\* of kind 2 favours the away team, a row of kind 3 the home team more than
\* a row of kind 1
HomeProba(m, row) ==
    LET base == CASE m.kind = "logreg"   -> 8
                  [] m.kind = "xgboost"  -> 6
                  [] m.kind = "lightgbm" -> 5
        shift == CASE row = 1 -> 0
                   [] row = 2 -> -4
                   [] row = 3 -> 1
        v == base + (IF m.calibrated THEN 1 ELSE 0) - (m.ds - 1) + shift
    IN  Rat(v, 10)

\* estimator.predict_proba(row): [P(away), P(home)]
ModelProba(m, row) ==
    LET ph == HomeProba(m, row) IN <<RatSub(Float(1), ph), ph>>

\* a constructor that starts the object in the fitted state
NewPredictorFitted(name, use_calibration) ==
    [name |-> name, model |-> None, is_fitted |-> TRUE,
     feature_names |-> <<>>,
     metadata |-> [trained_at |-> None, metrics |-> None],
     use_calibration |-> use_calibration,
     scaler |-> [fitted |-> FALSE, ds |-> None],
     models |-> EmptyDict, weights |-> EmptyDict,
     calibrated_models |-> EmptyDict]

\* EnsemblePredictor.__init__ (and BasePredictor.__init__)
NewPredictor(name, use_calibration) ==
    [name |-> name, model |-> None, is_fitted |-> FALSE,
     feature_names |-> <<>>,
     metadata |-> [trained_at |-> None, metrics |-> None],
     use_calibration |-> use_calibration,
     scaler |-> [fitted |-> FALSE, ds |-> None],
     models |-> EmptyDict, weights |-> EmptyDict,
     calibrated_models |-> EmptyDict]

Available(e) ==
    {"logreg"} \cup (IF e.HAS_XGBOOST THEN {"xgboost"} ELSE {})
               \cup (IF e.HAS_LIGHTGBM THEN {"lightgbm"} ELSE {})

InitialWeight(name) == IF name = "logreg" THEN Rat(2, 10) ELSE Rat(4, 10)

\* the names of ModelOrder that are keys of dict d, in order
Keys(d) == SelectSeq(ModelOrder, LAMBDA n : n \in DOMAIN d)

DictSum(d) == RatSeqSum([i \in DOMAIN Keys(d) |-> d[Keys(d)[i]]])

\* _init_models without its last step: the weights are left as assigned
_init_models_unnormalised(p, e) ==
    [p EXCEPT
       !.models  = Update(p.models, [n \in Available(e) |-> Unfitted(n)]),
       !.weights = Update(p.weights, [n \in Available(e) |-> InitialWeight(n)])]

\* EnsemblePredictor._init_models: new estimators, the initial weights
\* written over the entries of self.weights, then all entries normalised
_init_models(p, e) ==
    LET assigned == Update(p.weights, [n \in Available(e) |-> InitialWeight(n)])
        total_weight == DictSum(assigned)
    IN  [p EXCEPT
           !.models  = Update(p.models, [n \in Available(e) |-> Unfitted(n)]),
           !.weights = [n \in DOMAIN assigned |-> RatDiv(assigned[n], total_weight)]]

\* the plain mean of the rows, the weights ignored
np_mean(probas, weights) ==
    LET Col(c) == RatDiv(RatSeqSum([i \in DOMAIN probas |-> probas[i][c]]),
                         Float(Len(probas)))
    IN  <<Col(1), Col(2)>>

\* np.average(all_probas, axis=0, weights=all_weights) for one row: probas is
\* a sequence of [P(away), P(home)] pairs, weights the matching weights
np_average(probas, weights) ==
    LET wsum == RatSeqSum(weights)
        Col(c) == RatDiv(RatSeqSum([i \in DOMAIN probas |->
                                       RatMul(weights[i], probas[i][c])]), wsum)
    IN  <<Col(1), Col(2)>>

\* predict_proba combining the answering estimators with their fit-time
\* weights as they are, without renormalising them over the answering ones
predict_proba_raw_weights(p, X, fails) ==
    IF ~p.is_fitted THEN Raise("ValueError: El modelo no esta entrenado")
    ELSE IF ~p.scaler.fitted THEN Raise("NotFittedError")
    ELSE
      LET models_to_use == IF p.use_calibration THEN p.calibrated_models
                           ELSE p.models
          used == SelectSeq(Keys(models_to_use),
                            LAMBDA n : /\ n \notin fails
                                       /\ models_to_use[n].fitted
                                       /\ n \in DOMAIN p.weights)
          Col(r, c) == RatSeqSum([i \in DOMAIN used |->
                          RatMul(p.weights[used[i]],
                                 ModelProba(models_to_use[used[i]], X[r])[c])])
      IN  IF used = <<>>
          THEN Raise("ValueError: Ningun modelo pudo hacer predicciones")
          ELSE Ok([r \in DOMAIN X |-> <<Col(r, 1), Col(r, 2)>>])

\* EnsemblePredictor.predict_proba(X); `fails` are the estimators whose
\* predict_proba raises in this call (caught and logged at lines 246-247)
predict_proba(p, X, fails) ==
    IF ~p.is_fitted THEN Raise("ValueError: El modelo no esta entrenado")
    ELSE IF ~p.scaler.fitted THEN Raise("NotFittedError")
    ELSE
      LET models_to_use == IF p.use_calibration THEN p.calibrated_models
                           ELSE p.models
          used == SelectSeq(Keys(models_to_use),
                            LAMBDA n : /\ n \notin fails
                                       /\ models_to_use[n].fitted
                                       /\ n \in DOMAIN p.weights)
          total == RatSeqSum([i \in DOMAIN used |-> p.weights[used[i]]])
          all_weights == [i \in DOMAIN used |-> RatDiv(p.weights[used[i]], total)]
      IN  IF used = <<>>
          THEN Raise("ValueError: Ningun modelo pudo hacer predicciones")
          ELSE Ok([r \in DOMAIN X |->
                     np_average([i \in DOMAIN used |->
                                    ModelProba(models_to_use[used[i]], X[r])],
                                all_weights)])

\* self.scaler.transform(X) (line 231) on a DataFrame with the given columns.
\* The code compares nothing with self.feature_names; StandardScaler itself
\* rejects a frame of another width, and rejects other column names or
\* another column order only in the scikit-learn releases that validate
\* feature names (names_checked), the release not being fixed by the
\* repository.
scaler_transform(p, columns, names_checked) ==
    IF ~p.scaler.fitted THEN Raise("NotFittedError")
    ELSE IF Len(columns) # Len(p.feature_names)
    THEN Raise("ValueError: X has a different number of features")
    ELSE IF names_checked /\ columns # p.feature_names
    THEN Raise("ValueError: The feature names should match those that were passed during fit")
    ELSE Ok(columns)

\* EnsemblePredictor.predict_proba on a DataFrame: its columns and its rows
after_transform(t, p, X, fails) == IF ~t.ok THEN t ELSE predict_proba(p, X, fails)

predict_proba_frame(p, columns, X, fails, names_checked) ==
    IF ~p.is_fitted THEN Raise("ValueError: El modelo no esta entrenado")
    ELSE after_transform(scaler_transform(p, columns, names_checked), p, X, fails)

DefaultThreshold == Rat(1, 2)     \* predict(X, threshold=0.5)

\* BasePredictor.predict
predict(p, X, fails) ==
    LET probas == predict_proba(p, X, fails)
    IN  IF ~probas.ok THEN probas
        ELSE Ok([r \in DOMAIN X |->
                   IF RatGE(probas.value[r][2], DefaultThreshold) THEN 1 ELSE 0])

\* BasePredictor.get_confidence
get_confidence(p, X, fails) ==
    LET probas == predict_proba(p, X, fails)
    IN  IF ~probas.ok THEN probas
        ELSE Ok([r \in DOMAIN X |-> RatMax(probas.value[r][1], probas.value[r][2])])

\* _calibrate_models leaving out the estimators whose calibration raises
_calibrate_models_drop_failed(p, calfail) ==
    [p EXCEPT !.calibrated_models =
        Update(p.calibrated_models,
               [n \in DOMAIN p.models \ calfail |->
                   IF n = "logreg" THEN p.models[n]
                   ELSE Calibrated(p.models[n])])]

\* EnsemblePredictor._calibrate_models; calfail are the estimators whose
\* CalibratedClassifierCV.fit raises (caught at lines 208-210)
_calibrate_models(p, calfail) ==
    [p EXCEPT !.calibrated_models =
        Update(p.calibrated_models,
               [n \in DOMAIN p.models |->
                   IF n = "logreg" \/ n \in calfail THEN p.models[n]
                   ELSE Calibrated(p.models[n])])]

\* EnsemblePredictor.fit(X, y) on training set ds: the object as the call
\* leaves it and whether the call returned or raised
fit(p, e, ds, calfail, fails) ==
    LET p1 == [_init_models(p, e) EXCEPT !.feature_names = Columns(ds)]
        p2 == [p1 EXCEPT !.scaler = [fitted |-> TRUE, ds |-> ds],
                         !.models = [n \in DOMAIN p1.models |-> Fitted(n, ds)]]
        p3 == IF p2.use_calibration THEN _calibrate_models(p2, calfail) ELSE p2
        \* _calculate_metrics starts with self.predict_proba(X_val)
        probas == predict_proba(p3, <<1, 2>>, fails)
        p4 == [p3 EXCEPT !.metadata.metrics = ds]
        p5 == [p4 EXCEPT !.is_fitted = TRUE, !.metadata.trained_at = ds]
    IN  IF ds = TooSmall
        THEN [obj |-> p1, out |-> Raise("ValueError: train_test_split")]
        ELSE IF ~probas.ok
        THEN [obj |-> p3, out |-> probas]
        ELSE [obj |-> p5, out |-> Ok(ds)]

\* BasePredictor.save: the pickled dict
save(p) ==
    [model |-> p.model, name |-> p.name, is_fitted |-> p.is_fitted,
     feature_names |-> p.feature_names, metadata |-> p.metadata]

\* BasePredictor.load: the five pickled entries are assigned to the object
load(p, save_data) ==
    [p EXCEPT !.model = save_data.model,
              !.name = save_data.name,
              !.is_fitted = save_data.is_fitted,
              !.feature_names = save_data.feature_names,
              !.metadata = save_data.metadata]

\* the rows of get_predictions_with_confidence before the final sort: one row
\* per input row with confidence >= min_confidence, labelled by its position
\* in X (the RangeIndex of the new DataFrame, 0-based)
ConfidentRows(probas, min_confidence) ==
    LET Row(r) == [index |-> r - 1,
                   predicted_winner |->
                       IF RatGE(probas[r][2], DefaultThreshold) THEN 1 ELSE 2,
                   prob_home |-> probas[r][2],
                   prob_away |-> probas[r][1],
                   confidence |-> RatMax(probas[r][1], probas[r][2])]
        all == [r \in DOMAIN probas |-> Row(r)]
    IN  SelectSeq(all, LAMBDA row : RatGE(row.confidence, min_confidence))

\* df.sort_values("confidence") with the default ascending=True
SortedAscending(rows) ==
    LET n == Len(rows)
        perms == {q \in [1..n -> 1..n] : \A i, j \in 1..n : i # j => q[i] # q[j]}
    IN  {[i \in 1..n |-> rows[q[i]]] : q \in
            {q \in perms : \A i \in 1..n : i < n =>
                 RatLE(rows[q[i]].confidence, rows[q[i + 1]].confidence)}}

\* df.sort_values("confidence", ascending=False) with the default quicksort:
\* every descending arrangement of the rows is a possible outcome, the order
\* of rows of equal confidence is not fixed
SortedByConfidence(rows) ==
    LET n == Len(rows)
        perms == {q \in [1..n -> 1..n] : \A i, j \in 1..n : i # j => q[i] # q[j]}
    IN  {[i \in 1..n |-> rows[q[i]]] : q \in
            {q \in perms : \A i \in 1..n : i < n =>
                 RatGE(rows[q[i]].confidence, rows[q[i + 1]].confidence)}}

\* BasePredictor.get_predictions_with_confidence: the set of DataFrames the
\* call can return, or the exception of predict_proba
get_predictions_with_confidence(p, X, min_confidence, fails) ==
    LET probas == predict_proba(p, X, fails)
    IN  IF ~probas.ok THEN probas
        ELSE Ok(SortedByConfidence(ConfidentRows(probas.value, min_confidence)))

(***************************************************************************)
(* Trainer / walk-forward backtester (models/trainer.py)                   *)
(***************************************************************************)
\* ModelTrainer.prepare_data: rows without target are dropped
prepare_data(df) == SelectSeq(df, LAMBDA row : row.target # None)

\* a training slice the stratified split of fit accepts: both classes occur
\* (the minimum sizes of scikit-learn are scaled down to this)
TrainingSet(rows) ==
    IF  /\ \E i \in DOMAIN rows : rows[i].target = 1
        /\ \E i \in DOMAIN rows : rows[i].target = 0
    THEN 1 ELSE TooSmall

\* BasePredictor.get_metrics
get_metrics(p) == p.metadata.metrics

\* the statements of ModelTrainer.train that follow self.predictor.fit, whose
\* outcome is r: the history entry and, when save_model, the model file
after_fit(r, ds, save_model, file) ==
    IF ~r.out.ok
    THEN [obj |-> r.obj, out |-> r.out, file |-> file, history |-> <<>>]
    ELSE [obj |-> r.obj, out |-> Ok(get_metrics(r.obj)),
          file |-> IF save_model THEN [exists |-> TRUE, data |-> save(r.obj)]
                   ELSE file,
          history |-> <<[samples |-> ds, metrics |-> get_metrics(r.obj)]>>]

\* train writing the model file before it looks at the outcome of fit
after_fit_saves_always(r, ds, save_model, file, written) ==
    IF ~r.out.ok
    THEN [obj |-> r.obj, out |-> r.out, file |-> written, history |-> <<>>]
    ELSE [obj |-> r.obj, out |-> Ok(get_metrics(r.obj)), file |-> written,
          history |-> <<[samples |-> ds, metrics |-> get_metrics(r.obj)]>>]

train_saves_always(p, e, ds, save_model, calfail, fails, file) ==
    after_fit_saves_always(
        fit(p, e, ds, calfail, fails), ds, save_model, file,
        IF save_model
        THEN [exists |-> TRUE, data |-> save(fit(p, e, ds, calfail, fails).obj)]
        ELSE file)

\* ModelTrainer.train on a dataset whose prepared form is the training set ds;
\* `file` is the model file before the call.  The predictor and the file as
\* the call leaves them, the entry appended to training_history, and whether
\* the call returned the metrics or raised
train(p, e, ds, save_model, calfail, fails, file) ==
    after_fit(fit(p, e, ds, calfail, fails), ds, save_model, file)

\* X.iloc[a:b]: the rows at the 0-based positions a..b-1, a negative bound
\* counting from the end of the frame
SliceBound(i, n) == IF i < 0 THEN (IF n + i < 0 THEN 0 ELSE n + i)
                    ELSE (IF i > n THEN n ELSE i)
iloc(X, a, b) == SubSeq(X, SliceBound(a, Len(X)) + 1, SliceBound(b, Len(X)))

\* lines 235-242 of one loop iteration: a new predictor is fitted on the
\* training slice and asked for the confident predictions of the test slice;
\* the DataFrames the call can return, or the exception that ends backtest
WindowPredictions(b, e, train_end, test_end, calfail, fails) ==
    LET X      == prepare_data(b.df)
        X_tr   == iloc(X, 0, train_end)
        X_test == iloc(X, train_end, test_end)
        fitted == fit(NewPredictor("backtest", TRUE), e, TrainingSet(X_tr),
                      calfail, fails)
    IN  IF ~fitted.out.ok THEN fitted.out
        ELSE get_predictions_with_confidence(
                 fitted.obj, [i \in DOMAIN X_test |-> X_test[i].kind],
                 b.min_confidence, fails)

\* lines 244-263: the rows appended to `results` for the frame preds_df
WindowResults(b, train_end, test_end, preds_df) ==
    LET X      == prepare_data(b.df)
        X_test == iloc(X, train_end, test_end)
        top_preds == Take(preds_df, b.top_n)
        Result(row) ==
            LET idx == row.index
                local_idx == IF idx >= train_end THEN idx - train_end ELSE idx
                actual == X_test[local_idx + 1].target
                pred_winner == IF row.predicted_winner = 1 THEN 1 ELSE 0
            IN  IF local_idx < Len(X_test)
                THEN <<[date |-> X_test[local_idx + 1].date,
                        row_id |-> X_test[local_idx + 1].id,
                        predicted |-> row.predicted_winner,
                        actual |-> IF actual = 1 THEN 1 ELSE 2,
                        confidence |-> row.confidence,
                        prob_home |-> row.prob_home,
                        prob_away |-> row.prob_away,
                        correct |-> (pred_winner = actual),
                        train_size |-> train_end,
                        source |-> X_test[idx + 1].id]>>
                ELSE <<>>
        RECURSIVE Collect(_)
        Collect(rows) == IF rows = <<>> THEN <<>>
                         ELSE Result(Head(rows)) \o Collect(Tail(rows))
    IN  Collect(top_preds)

RemoveAt(s, i) == SubSeq(s, 1, i - 1) \o SubSeq(s, i + 1, Len(s))

\* df.sort_values("date") with the default quicksort: every arrangement in
\* ascending date order is a possible outcome, rows of equal date in any order
RECURSIVE sort_values(_)
sort_values(df) ==
    IF df = <<>> THEN {<<>>}
    ELSE LET first == {i \in DOMAIN df : \A j \in DOMAIN df : df[i].date <= df[j].date}
         IN  UNION {{<<df[i]>> \o s : s \in sort_values(RemoveAt(df, i))} : i \in first}

\* .reset_index(drop=True): the rows are labelled by their new position
reset_index(df) ==
    [i \in DOMAIN df |-> [id |-> i, date |-> df[i].date,
                          target |-> df[i].target, kind |-> df[i].kind]]

\* ModelTrainer.backtest up to the loop (lines 204-215)
BacktestStart(df, min_train_samples, test_window_days, min_confidence, top_n) ==
    /\ bt.pc = "idle"
    /\ \E sorted \in sort_values(df) :
         bt' = [pc |-> "loop", df |-> reset_index(sorted),
                min_train_samples |-> min_train_samples,
                test_window_days |-> test_window_days,
                min_confidence |-> min_confidence, top_n |-> top_n,
                start_idx |-> min_train_samples,
                windows |-> <<>>, results |-> <<>>, error |-> ""]
    /\ UNCHANGED <<storeVars, predVars, env, restVars>>

\* ModelTrainer.backtest, one iteration of `while start_idx < len(X)`
BacktestIteration(calfail, fails) ==
    /\ bt.pc = "loop"
    /\ LET X         == prepare_data(bt.df)
           train_end == bt.start_idx
           test_end  == Min(bt.start_idx + bt.test_window_days, Len(X))
           win       == [train_end |-> train_end, test_end |-> test_end,
                         calfail |-> calfail, fails |-> fails]
           preds     == WindowPredictions(bt, env, train_end, test_end,
                                          calfail, fails)
       IN  IF ~(bt.start_idx < Len(X)) \/ Len(iloc(X, train_end, test_end)) = 0
           THEN bt' = [bt EXCEPT !.pc = "done"]
           ELSE IF ~preds.ok
           THEN bt' = [bt EXCEPT !.windows = Append(@, win),
                                 !.pc = "raised",
                                 !.error = preds.error]
           ELSE \E preds_df \in preds.value :
                  bt' = [bt EXCEPT
                           !.windows = Append(@, win),
                           !.results = @ \o WindowResults(bt, train_end,
                                                          test_end, preds_df),
                           !.start_idx = test_end]
    /\ UNCHANGED <<storeVars, predVars, env, restVars>>

\* the frames get_predictions_with_confidence returns for the test slice once
\* the predictor of the window is fitted on the training slice
FittedPredictions(X, e, train_end, test_end, min_confidence, calfail, fails) ==
    get_predictions_with_confidence(
        [fit(NewPredictor("backtest", TRUE), e,
             TrainingSet(SubSeq(X, 1, train_end)), calfail, fails).obj
           EXCEPT !.is_fitted = TRUE],
        [i \in 1..(test_end - train_end) |-> X[train_end + i].kind],
        min_confidence, fails)

\* what lines 244-263 record for the window [train_end, test_end) of b.df
\* when the predictions of the window are preds
Recorded(b, train_end, test_end, preds) ==
    /\ preds.ok
    /\ \E preds_df \in preds.value :
          bt' = [b EXCEPT !.pc = "window",
                          !.windows = <<[train_end |-> train_end,
                                         test_end |-> test_end]>>,
                          !.results = WindowResults(b, train_end, test_end,
                                                    preds_df)]

\* lines 217-263 of one loop iteration with a fitted predictor: the first
\* window of backtest(df, min_train_samples, test_window_days, ...)
BacktestWindow(df, min_train_samples, test_window_days, min_confidence, top_n, calfail, fails) ==
    /\ bt.pc = "idle"
    /\ min_train_samples < Len(prepare_data(df))
    /\ test_window_days > 0
    /\ TrainingSet(SubSeq(prepare_data(df), 1, min_train_samples)) # TooSmall
    /\ Recorded([pc |-> "loop", df |-> df,
                 min_train_samples |-> min_train_samples,
                 test_window_days |-> test_window_days,
                 min_confidence |-> min_confidence, top_n |-> top_n,
                 start_idx |-> min_train_samples,
                 windows |-> <<>>, results |-> <<>>, error |-> ""],
                min_train_samples,
                Min(min_train_samples + test_window_days, Len(prepare_data(df))),
                FittedPredictions(prepare_data(df), env, min_train_samples,
                    Min(min_train_samples + test_window_days,
                        Len(prepare_data(df))),
                    min_confidence, calfail, fails))
    /\ UNCHANGED <<storeVars, predVars, env, restVars>>

\* sklearn TimeSeriesSplit(n_splits).split(X) on n_samples rows: the list of
\* (train_idx, test_idx), 1-based; raises when there are more folds than rows
TimeSeriesSplit(n_splits, n_samples) ==
    LET n_folds   == n_splits + 1
        test_size == n_samples \div n_folds
        Start(k)  == n_samples - (n_splits - k + 1) * test_size
    IN  IF n_folds > n_samples
        THEN Raise("ValueError: Cannot have number of folds greater than the number of samples")
        ELSE Ok([k \in 1..n_splits |->
                   [train_idx |-> 1..Start(k),
                    test_idx  |-> (Start(k) + 1)..(Start(k) + test_size)]])

\* the mean of a list of metrics and the square of np.std of the list
np_mean_list(values) == RatDiv(RatSeqSum(values), Float(Len(values)))
np_var_list(values) ==
    LET m == np_mean_list(values)
    IN  RatDiv(RatSeqSum([i \in DOMAIN values |->
                            RatMul(RatSub(values[i], m), RatSub(values[i], m))]),
               Float(Len(values)))

\* the for loop of ModelTrainer.cross_validate over splits[k..]: a new
\* EnsemblePredictor is fitted on X.iloc[train_idx]; the metrics appended are
\* those fit computed, on the validation part fit itself splits off its
\* training rows (X_test and y_test are not used).  A fit that raises ends
\* cross_validate.
RECURSIVE CVLoop(_, _, _, _, _)
RECURSIVE CVStep(_, _, _, _, _, _)
CVLoop(X, e, splits, k, folds) ==
    IF k > Len(splits) THEN [folds |-> folds, out |-> Ok(0)]
    ELSE CVStep(X, e, splits, k, folds,
                fit(NewPredictor("cv_fold", TRUE), e,
                    TrainingSet(SubSeq(X, 1, Cardinality(splits[k].train_idx))),
                    {}, {}))

CVStep(X, e, splits, k, folds, r) ==
    IF ~r.out.ok
    THEN [folds |-> Append(folds, [train_idx |-> splits[k].train_idx,
                                   test_idx |-> splits[k].test_idx,
                                   fresh |-> TRUE,
                                   scored_on |-> {}, metrics |-> None]),
          out |-> r.out]
    ELSE CVLoop(X, e, splits, k + 1,
                Append(folds, [train_idx |-> splits[k].train_idx,
                               test_idx |-> splits[k].test_idx,
                               fresh |-> TRUE,
                               scored_on |-> splits[k].train_idx,
                               metrics |-> get_metrics(r.obj)]))

\* the end of cross_validate: mean and spread of the metric over the folds
CVResult(loop) ==
    IF ~loop.out.ok THEN loop
    ELSE [folds |-> loop.folds,
          out |-> Ok([metric |->
                        np_mean_list([i \in DOMAIN loop.folds |->
                                         Float(loop.folds[i].metrics)]),
                      metric_std_squared |->
                        np_var_list([i \in DOMAIN loop.folds |->
                                        Float(loop.folds[i].metrics)])])]

\* ModelTrainer.cross_validate on the frame X already prepared and sorted
cross_validate(X, e, n_splits, splits) ==
    IF ~splits.ok THEN [folds |-> <<>>, out |-> splits]
    ELSE CVResult(CVLoop(X, e, splits.value, 1, <<>>))

\* what a cross_validate call that ended with r on the sorted frame X leaves
CrossValidated(r, X, n_splits) ==
    tr' = [op |-> "cross_validate", X |-> X, n_splits |-> n_splits,
           folds |-> r.folds, out |-> r.out]

\* trainer.cross_validate(df, n_splits): rows without target are dropped and
\* the rest is put in date order
CrossValidate(df, n_splits) ==
    /\ tr = NoCall
    /\ \E X \in sort_values(prepare_data(reset_index(df))) :
         CrossValidated(cross_validate(X, env, n_splits,
                                       TimeSeriesSplit(n_splits, Len(X))),
                        X, n_splits)
    /\ UNCHANGED <<storeVars, predVars, env, bt, cacheVars, jobVars>>

\* an Optional[pd.Series] argument: None, or the values of the series
NoSeries == NoneDict
Series(values) == [values |-> values]

FallbackOdds == Rat(19, 10)      \* avg_odds = 1.9

\* calculate_roi taking the fallback odds whatever is supplied
calculate_roi_fallback_only(backtest_results, odds_home, odds_away, stake) ==
    IF Len(backtest_results) = 0
    THEN ("roi" :> Float(0)) @@ ("profit" :> Float(0))
    ELSE
      LET correct == Cardinality({i \in DOMAIN backtest_results :
                                     backtest_results[i].correct})
          total   == Len(backtest_results)
          profit  == RatSub(RatMul(RatMul(Float(correct), FallbackOdds), stake),
                            RatMul(Float(total), stake))
      IN     ("total_bets"     :> Float(total))
          @@ ("correct"        :> Float(correct))
          @@ ("accuracy"       :> Rat(correct, total))
          @@ ("total_staked"   :> RatMul(Float(total), stake))
          @@ ("profit"         :> profit)
          @@ ("roi_percent"    :> RatMul(RatDiv(profit, RatMul(Float(total), stake)),
                                         Float(100)))
          @@ ("avg_confidence" :>
                 np_mean_list([i \in DOMAIN backtest_results |->
                                  backtest_results[i].confidence]))

\* ModelTrainer.calculate_roi; odds_away is not read
calculate_roi(backtest_results, odds_home, odds_away, stake) ==
    IF Len(backtest_results) = 0
    THEN ("roi" :> Float(0)) @@ ("profit" :> Float(0))
    ELSE
      LET avg_odds == IF odds_home = NoSeries THEN FallbackOdds
                      ELSE np_mean_list(odds_home.values)
          correct == Cardinality({i \in DOMAIN backtest_results :
                                     backtest_results[i].correct})
          total   == Len(backtest_results)
          profit  == RatSub(RatMul(RatMul(Float(correct), avg_odds), stake),
                            RatMul(Float(total), stake))
      IN     ("total_bets"     :> Float(total))
          @@ ("correct"        :> Float(correct))
          @@ ("accuracy"       :> Rat(correct, total))
          @@ ("total_staked"   :> RatMul(Float(total), stake))
          @@ ("profit"         :> profit)
          @@ ("roi_percent"    :> RatMul(RatDiv(profit, RatMul(Float(total), stake)),
                                         Float(100)))
          @@ ("avg_confidence" :>
                 np_mean_list([i \in DOMAIN backtest_results |->
                                  backtest_results[i].confidence]))

\* trainer.calculate_roi(backtest_results, odds_home, odds_away, stake)
CalculateRoi(backtest_results, odds_home, odds_away, stake) ==
    /\ tr = NoCall
    /\ tr' = [op |-> "calculate_roi", backtest_results |-> backtest_results,
              odds_home |-> odds_home, odds_away |-> odds_away, stake |-> stake,
              out |-> calculate_roi(backtest_results, odds_home, odds_away,
                                    stake)]
    /\ UNCHANGED <<storeVars, predVars, env, bt, cacheVars, jobVars>>

(***************************************************************************)
(* API cache (api_client/cache.py)                                         *)
(*                                                                         *)
(* A dict of request parameters is the sequence of its (name, value) items *)
(* in insertion order.  A cache file is named by the MD5 digest of the key *)
(* string; the digest is taken to be free of collisions, so the key string *)
(* itself names the file.  The data handed to set() are parsed JSON        *)
(* documents, which json.dump / json.load hand back field by field.        *)
(***************************************************************************)
MaxCacheOps == 3
MaxTime     == 3

\* the parameter names that occur, in the order of str
ParamNames == <<"league", "season">>
NameRank(name) == CHOOSE i \in DOMAIN ParamNames : ParamNames[i] = name

\* sorted(params.items())
RECURSIVE sorted_items(_)
sorted_items(items) ==
    IF items = <<>> THEN <<>>
    ELSE LET i == CHOOSE i \in DOMAIN items :
                     \A j \in DOMAIN items :
                        NameRank(items[i][1]) <= NameRank(items[j][1])
         IN  <<items[i]>> \o
             sorted_items([k \in 1..(Len(items) - 1) |->
                              IF k < i THEN items[k] ELSE items[k + 1]])

\* a key over the items in the order in which the caller built the dict
_generate_key_unsorted(endpoint, params) ==
    [endpoint |-> endpoint, sorted_params |-> params]

\* APICache._generate_key
_generate_key(endpoint, params) ==
    [endpoint |-> endpoint, sorted_params |-> sorted_items(params)]

CacheEntry(data, timestamp, ttl, endpoint, params) ==
    [data |-> data, timestamp |-> timestamp, ttl |-> ttl, endpoint |-> endpoint,
     params |-> params]

\* CacheEntry.is_expired at clock reading t
is_expired(entry, t) == t - entry.timestamp > entry.ttl

\* json.dump(entry.to_dict(), f) and CacheEntry.from_dict(json.load(f)): the
\* file holds the five fields of the entry as a JSON object
to_dict(entry) ==
    <<entry.data, entry.timestamp, entry.ttl, entry.endpoint, entry.params>>
from_dict(file) == CacheEntry(file[1], file[2], file[3], file[4], file[5])

unlink(dir, keys) == [k \in DOMAIN dir \ keys |-> dir[k]]
Count(stats, name) == [stats EXCEPT ![name] = @ + 1]
NoStats == [hits |-> 0, misses |-> 0, expired |-> 0]

\* APICache.get on the directory dir at clock reading t
cache_get(dir, stats, t, key) ==
    IF key \notin DOMAIN dir
    THEN [dir |-> dir, stats |-> Count(stats, "misses"), out |-> NoneDict]
    ELSE IF is_expired(from_dict(dir[key]), t)
         THEN [dir |-> unlink(dir, {key}), stats |-> Count(stats, "expired"),
               out |-> NoneDict]
         ELSE [dir |-> dir, stats |-> Count(stats, "hits"),
               out |-> from_dict(dir[key]).data]

\* APICache.set
cache_set(dir, t, endpoint, params, data, ttl) ==
    (_generate_key(endpoint, params)
        :> to_dict(CacheEntry(data, t, ttl, endpoint, params))) @@ dir

\* pattern in entry.endpoint, for the endpoints and patterns that occur
Endpoints == {"/fixtures", "/standings"}
Patterns  == {"/", "stand"}
pattern_in(pattern, endpoint) ==
    \/ pattern = "/"
    \/ pattern = "stand" /\ endpoint = "/standings"

\* the files APICache.invalidate deletes; None stands for an argument left out
invalidated(dir, endpoint, pattern) ==
    {k \in DOMAIN dir :
        \/ endpoint # "None" /\ from_dict(dir[k]).endpoint = endpoint
        \/ pattern # "None" /\ pattern_in(pattern, from_dict(dir[k]).endpoint)}

\* the files APICache.cleanup_expired deletes
expired_files(dir, t) == {k \in DOMAIN dir : is_expired(from_dict(dir[k]), t)}

\* the request a dict of parameters stands for, whatever its insertion order
Request(endpoint, params) ==
    [endpoint |-> endpoint, items |-> {params[i] : i \in DOMAIN params}]

NoCacheCall == [op |-> "none"]
EmptyDir == [k \in {} |-> <<>>]

\* what a get that ended with r leaves
Got(r, endpoint, params) ==
    /\ cache_dir' = r.dir
    /\ _stats' = r.stats
    /\ cache_last' = [op |-> "get", endpoint |-> endpoint, params |-> params,
                      out |-> r.out]

\* cache.get(endpoint, params)
CacheGet(endpoint, params) ==
    /\ cache_ops < MaxCacheOps
    /\ Got(cache_get(cache_dir, _stats, now, _generate_key(endpoint, params)),
           endpoint, params)
    /\ cache_ops' = cache_ops + 1
    /\ UNCHANGED <<now, stored>>
    /\ UNCHANGED <<storeVars, predVars, env, bt, tr, jobVars>>

\* cache.set(endpoint, params, data, ttl)
CacheSet(endpoint, params, data, ttl) ==
    /\ cache_ops < MaxCacheOps
    /\ cache_dir' = cache_set(cache_dir, now, endpoint, params, data, ttl)
    /\ stored' = (Request(endpoint, params)
                    :> [data |-> data, timestamp |-> now, ttl |-> ttl]) @@ stored
    /\ cache_last' = [op |-> "set", endpoint |-> endpoint, params |-> params]
    /\ cache_ops' = cache_ops + 1
    /\ UNCHANGED <<now, _stats>>
    /\ UNCHANGED <<storeVars, predVars, env, bt, tr, jobVars>>

\* cache.invalidate(endpoint, pattern)
CacheInvalidate(endpoint, pattern) ==
    /\ cache_ops < MaxCacheOps
    /\ cache_dir' = unlink(cache_dir, invalidated(cache_dir, endpoint, pattern))
    /\ stored' = [q \in {q \in DOMAIN stored :
                            /\ endpoint = "None" \/ q.endpoint # endpoint
                            /\ pattern = "None" \/ ~pattern_in(pattern, q.endpoint)}
                     |-> stored[q]]
    /\ cache_last' = [op |-> "invalidate",
                      out |-> Cardinality(invalidated(cache_dir, endpoint, pattern))]
    /\ cache_ops' = cache_ops + 1
    /\ UNCHANGED <<now, _stats>>
    /\ UNCHANGED <<storeVars, predVars, env, bt, tr, jobVars>>

\* cache.clear()
CacheClear ==
    /\ cache_ops < MaxCacheOps
    /\ cache_dir' = EmptyDir
    /\ _stats' = NoStats
    /\ stored' = EmptyDir
    /\ cache_last' = [op |-> "clear", out |-> Cardinality(DOMAIN cache_dir)]
    /\ cache_ops' = cache_ops + 1
    /\ UNCHANGED now
    /\ UNCHANGED <<storeVars, predVars, env, bt, tr, jobVars>>

\* cache.cleanup_expired()
CacheCleanupExpired ==
    /\ cache_ops < MaxCacheOps
    /\ cache_dir' = unlink(cache_dir, expired_files(cache_dir, now))
    /\ cache_last' = [op |-> "cleanup_expired",
                      out |-> Cardinality(expired_files(cache_dir, now))]
    /\ cache_ops' = cache_ops + 1
    /\ UNCHANGED <<now, _stats, stored>>
    /\ UNCHANGED <<storeVars, predVars, env, bt, tr, jobVars>>

\* time.time() moves on by one second
Tick ==
    /\ now < MaxTime
    /\ now' = now + 1
    /\ UNCHANGED <<cache_dir, _stats, stored, cache_last, cache_ops>>
    /\ UNCHANGED <<storeVars, predVars, env, bt, tr, jobVars>>

IdleCache ==
    /\ cache_dir = EmptyDir
    /\ _stats = NoStats
    /\ now = 0
    /\ stored = EmptyDir
    /\ cache_last = NoCacheCall
    /\ cache_ops = 0

(***************************************************************************)
(* Training jobs (api/routers/training.py)                                 *)
(*                                                                         *)
(* The request handlers run on the event loop, one at a time; every task   *)
(* runs on a thread of its own.  A call of a TrainingState method is one   *)
(* step.  datetime.now() reads the number of tasks started so far.  The    *)
(* task functions look the global training_state up at every use, so a     *)
(* thread started before a reset writes to the object the reset installed. *)
(***************************************************************************)
MaxJobs == 2

\* TrainingState.__init__
TrainingState ==
    [status |-> "idle", current_task |-> "None", progress |-> 0, logs |-> <<>>,
     error |-> "None", started_at |-> None, completed_at |-> None,
     result |-> NoneDict]

\* TrainingState.log
log(s, text, arg) == [s EXCEPT !.logs = Append(@, [text |-> text, arg |-> arg])]

\* TrainingState.start
start(s, task_name, clock) ==
    log([status |-> "running", current_task |-> task_name, progress |-> 0,
         logs |-> <<>>, error |-> "None", started_at |-> clock,
         completed_at |-> None, result |-> NoneDict],
        "Iniciando", task_name)

\* TrainingState.complete
complete(s, result, clock) ==
    log([s EXCEPT !.status = "completed", !.progress = 100,
                  !.completed_at = clock, !.result = result],
        "Completado", s.current_task)

\* TrainingState.fail
fail(s, error, clock) ==
    log([s EXCEPT !.status = "failed", !.error = error, !.completed_at = clock],
        "Error", error)

\* threading.Thread(target, args).start()
Thread(target, args) == [target |-> target, args |-> args, pc |-> "begin"]

\* the threads that have not returned from their task function
Alive == {t \in DOMAIN threads : threads[t].pc # "done"}

NoRequest == [op |-> "none"]
HTTPException(op, detail) == [op |-> op, status_code |-> 400, detail |-> detail]
Response(op, message) == [op |-> op, status_code |-> 200, message |-> message]

\* the body shared by start_collect, start_features and start_training
StartTask(op, task_name, target, message) ==
    IF training_state.status = "running"
    THEN /\ job_last' = HTTPException(op, "Ya hay un proceso en ejecucion")
         /\ UNCHANGED <<training_state, threads>>
    ELSE /\ Len(threads) < MaxJobs
         /\ training_state' = start(training_state, task_name, Len(threads) + 1)
         /\ threads' = Append(threads, Thread(target, Len(threads) + 1))
         /\ job_last' = Response(op, message)

\* POST /collect
StartCollect ==
    /\ StartTask("collect", "Recopilacion de Datos", "run_collect_task",
                 "Recopilacion iniciada")
    /\ UNCHANGED <<storeVars, predVars, env, bt, tr, cacheVars>>

\* POST /features
StartFeatures ==
    /\ StartTask("features", "Generacion de Features", "run_features_task",
                 "Generacion de features iniciada")
    /\ UNCHANGED <<storeVars, predVars, env, bt, tr, cacheVars>>

\* POST /train
StartTraining ==
    /\ StartTask("train", "Entrenamiento del Modelo", "run_train_task",
                 "Entrenamiento iniciado")
    /\ UNCHANGED <<storeVars, predVars, env, bt, tr, cacheVars>>

\* POST /cancel
CancelTraining ==
    /\ IF training_state.status # "running"
       THEN /\ job_last' = HTTPException("cancel", "No hay proceso en ejecucion")
            /\ UNCHANGED training_state
       ELSE /\ training_state' = fail(training_state, "Cancelado por el usuario",
                                      Len(threads))
            /\ job_last' = Response("cancel", "Proceso cancelado")
    /\ UNCHANGED threads
    /\ UNCHANGED <<storeVars, predVars, env, bt, tr, cacheVars>>

\* DELETE /reset
ResetState ==
    /\ training_state' = TrainingState
    /\ job_last' = Response("reset", "Estado reseteado")
    /\ UNCHANGED threads
    /\ UNCHANGED <<storeVars, predVars, env, bt, tr, cacheVars>>

\* the first statement of a task function: training_state.log(...)
TaskLog(t) ==
    /\ threads[t].pc = "begin"
    /\ training_state' = log(training_state, threads[t].target, "begin")
    /\ threads' = [threads EXCEPT ![t].pc = "loaded"]
    /\ UNCHANGED job_last
    /\ UNCHANGED <<storeVars, predVars, env, bt, tr, cacheVars>>

\* the work of a task function up to its last progress report:
\* training_state.progress = ...; training_state.log(...)
TaskProgress(t) ==
    /\ threads[t].pc = "loaded"
    /\ training_state' = log([training_state EXCEPT !.progress = 80],
                             threads[t].target, "progress")
    /\ threads' = [threads EXCEPT ![t].pc = "worked"]
    /\ UNCHANGED job_last
    /\ UNCHANGED <<storeVars, predVars, env, bt, tr, cacheVars>>

\* the task function ends with training_state.complete({...})
TaskComplete(t) ==
    /\ threads[t].pc = "worked"
    /\ training_state' = complete(training_state,
                                  [target |-> threads[t].target,
                                   args |-> threads[t].args],
                                  Len(threads))
    /\ threads' = [threads EXCEPT ![t].pc = "done"]
    /\ UNCHANGED job_last
    /\ UNCHANGED <<storeVars, predVars, env, bt, tr, cacheVars>>

\* the task function ends with training_state.fail(...): too few fixtures or
\* samples, no dataset file, or an exception
TaskFail(t) ==
    /\ threads[t].pc \in {"loaded", "worked"}
    /\ training_state' = fail(training_state, threads[t].target, Len(threads))
    /\ threads' = [threads EXCEPT ![t].pc = "done"]
    /\ UNCHANGED job_last
    /\ UNCHANGED <<storeVars, predVars, env, bt, tr, cacheVars>>

IdleJobs ==
    /\ training_state = TrainingState
    /\ threads = <<>>
    /\ job_last = NoRequest

\* the predictor objects, the model file and the backtest before any use
NoLast == [op |-> "none"]
NoFile == [exists |-> FALSE]
IdlePredictor ==
    /\ pred = NewPredictor("ensemble", TRUE)
    /\ loaded = NoneDict
    /\ disk = NoFile
    /\ last = NoLast
    /\ fits = 0
    /\ completed = FALSE
    /\ calls = 0
IdleBacktest ==
    bt = [pc |-> "idle"]

IdleRest ==
    /\ tr = NoCall
    /\ IdleCache
    /\ IdleJobs

InitStore ==
    /\ \E early \in SUBSET EarlyDates, k \in {0, SeasonRest} :
         \E pick \in [early -> UNION {SlotOptions(d) : d \in EarlyDates}] :
            /\ \A d \in early : pick[d] \in SlotOptions(d)
            /\ fixtures = {pick[d] : d \in early} \cup LaterBlock(k)
    /\ inserts = 0
    /\ computed = NotComputed
    /\ batch = NoBatch

(***************************************************************************)
(* One EnsemblePredictor object, a second one for load(), the model file   *)
(***************************************************************************)
\* a model file left in models_dir by an earlier deployment: BasePredictor.save
\* of a predictor whose fit had completed
EarlierArtifact ==
    [exists |-> TRUE,
     data |-> [model |-> None, name |-> "ensemble", is_fitted |-> TRUE,
               feature_names |-> Columns(1),
               metadata |-> [trained_at |-> 1, metrics |-> 1]]]

InitPredictor ==
    /\ \E use_calibration \in BOOLEAN : pred = NewPredictor("ensemble", use_calibration)
    /\ loaded = NoneDict
    /\ disk \in {NoFile, EarlierArtifact}
    /\ env \in [HAS_XGBOOST : BOOLEAN, HAS_LIGHTGBM : BOOLEAN]
    /\ last = NoLast
    /\ fits = 0
    /\ completed = FALSE
    /\ calls = 0
    /\ fixtures = {} /\ inserts = 0 /\ computed = NotComputed
    /\ batch = NoBatch
    /\ IdleBacktest
    /\ IdleRest

\* p.fit(X, y) on training set ds.  The inference calls change neither an
\* object nor the file, so they are explored after the training calls
Fit(ds, calfail, fails) ==
    /\ fits < MaxFits
    /\ calls = 0
    /\ LET r == fit(pred, env, ds, calfail, fails)
       IN  /\ pred' = r.obj
           /\ last' = [op |-> "fit", ds |-> ds,
                       fresh |-> (pred = NewPredictor(pred.name, pred.use_calibration)),
                       out |-> r.out]
           /\ completed' = (completed \/ r.out.ok)
    /\ fits' = fits + 1
    /\ UNCHANGED <<loaded, disk, calls, env, storeVars, bt, restVars>>

\* p.save(): the file holds the pickled dict
Save ==
    /\ disk' = [exists |-> TRUE, data |-> save(pred)]
    /\ last' = [op |-> "save"]
    /\ UNCHANGED <<pred, loaded, fits, completed, calls, env, storeVars, bt, restVars>>

\* p.load(path) on the object p itself
Load ==
    /\ IF disk.exists
       THEN /\ pred' = load(pred, disk.data)
            /\ last' = [op |-> "load", out |-> Ok(0)]
       ELSE /\ pred' = pred
            /\ last' = [op |-> "load", out |-> Raise("FileNotFoundError")]
    /\ completed' = (completed \/ disk.exists)
    /\ UNCHANGED <<loaded, disk, fits, calls, env, storeVars, bt, restVars>>

\* q = EnsemblePredictor(...); q.load(path)
LoadNew(use_calibration) ==
    /\ disk.exists
    /\ loaded' = [obj |-> load(NewPredictor("ensemble", use_calibration), disk.data)]
    /\ last' = [op |-> "load_new", out |-> Ok(0)]
    /\ UNCHANGED <<pred, disk, fits, completed, calls, env, storeVars, bt, restVars>>

\* p.predict_proba(X)
PredictProba(X, fails) ==
    /\ calls < MaxCalls
    /\ last' = [op |-> "predict_proba", on |-> "p", X |-> X, fails |-> fails,
                out |-> predict_proba(pred, X, fails)]
    /\ calls' = calls + 1
    /\ UNCHANGED <<pred, loaded, disk, fits, completed, env, storeVars, bt, restVars>>

\* q.predict_proba(X) on the loaded object
PredictProbaLoaded(X, fails) ==
    /\ calls < MaxCalls
    /\ loaded # NoneDict
    /\ last' = [op |-> "predict_proba", on |-> "q", X |-> X,
                fails |-> fails, out |-> predict_proba(loaded.obj, X, fails)]
    /\ calls' = calls + 1
    /\ UNCHANGED <<pred, loaded, disk, fits, completed, env, storeVars, bt, restVars>>

\* the column lists of the frames handed to predict_proba: the columns of
\* fit, the same in another order, another name, and one column fewer
ColumnLists ==
    { Columns(1),
      <<"away_points_last_5", "home_points_last_5">>,
      <<"home_points_last_5", "away_points_last_3">>,
      <<"home_points_last_5">> }

\* p.predict_proba(X) on a DataFrame with the given columns
PredictProbaFrame(columns, X, fails, names_checked) ==
    /\ calls < MaxCalls
    /\ last' = [op |-> "predict_proba_frame", on |-> "p", columns |-> columns,
                X |-> X, fails |-> fails, names_checked |-> names_checked,
                out |-> predict_proba_frame(pred, columns, X, fails,
                                            names_checked)]
    /\ calls' = calls + 1
    /\ UNCHANGED <<pred, loaded, disk, fits, completed, env, storeVars, bt, restVars>>

\* p.predict(X)
Predict(X, fails) ==
    /\ calls < MaxCalls
    /\ last' = [op |-> "predict", on |-> "p", X |-> X, fails |-> fails,
                out |-> predict(pred, X, fails)]
    /\ calls' = calls + 1
    /\ UNCHANGED <<pred, loaded, disk, fits, completed, env, storeVars, bt, restVars>>

\* p.get_confidence(X)
GetConfidence(X, fails) ==
    /\ calls < MaxCalls
    /\ last' = [op |-> "get_confidence", on |-> "p", X |-> X, fails |-> fails,
                out |-> get_confidence(pred, X, fails)]
    /\ calls' = calls + 1
    /\ UNCHANGED <<pred, loaded, disk, fits, completed, env, storeVars, bt, restVars>>

\* what a get_predictions_with_confidence call that ended with r leaves
Returned(r, X, min_confidence, fails) ==
    \E df \in (IF r.ok THEN r.value ELSE {<<>>}) :
        last' = [op |-> "get_predictions_with_confidence", on |-> "p",
                 X |-> X, min_confidence |-> min_confidence,
                 fails |-> fails,
                 out |-> IF r.ok THEN Ok(df) ELSE r]

\* p.get_predictions_with_confidence(X, min_confidence)
GetPredictions(X, min_confidence, fails) ==
    /\ calls < MaxCalls
    /\ Returned(get_predictions_with_confidence(pred, X, min_confidence, fails),
                X, min_confidence, fails)
    /\ calls' = calls + 1
    /\ UNCHANGED <<pred, loaded, disk, fits, completed, env, storeVars, bt, restVars>>

\* what a train call that ended with r leaves
Trained(r, ds, save_model) ==
    /\ pred' = r.obj
    /\ disk' = r.file
    /\ last' = [op |-> "train", ds |-> ds, save_model |-> save_model,
                fresh |-> (pred = NewPredictor(pred.name, pred.use_calibration)),
                file_before |-> disk, history |-> r.history,
                out |-> r.out]
    /\ completed' = (completed \/ r.out.ok)

\* ModelTrainer(p).train(df, save_model=save_model), no estimator raising
Train(ds, save_model) ==
    /\ fits < MaxFits
    /\ calls = 0
    /\ Trained(train(pred, env, ds, save_model, {}, {}, disk), ds, save_model)
    /\ fits' = fits + 1
    /\ UNCHANGED <<loaded, calls, env, storeVars, bt, restVars>>

(***************************************************************************)
(* Specifications                                                          *)
(***************************************************************************)
Init ==
    /\ InitStore
    /\ IdlePredictor
    /\ env = [HAS_XGBOOST |-> TRUE, HAS_LIGHTGBM |-> TRUE]
    /\ IdleBacktest
    /\ IdleRest

Next ==
    \/ \E data \in SyncCandidates : Upsert(data)
    \/ \E fixture \in {f \in fixtures : f.status = "NS"}, r \in ResultInputs :
          UpdateResult(fixture.id, r[1], r[2])
    \/ \E fixture \in Requested : ComputeFeatures(fixture)

Spec == Init /\ [][Next]_vars

\* the stores the batch runs are examined on: the early fixtures and at most
\* the first BatchRest fixtures of the rest of the season
BatchRest == 2

InitBatch ==
    /\ \E early \in SUBSET EarlyDates, k \in {0, BatchRest} :
         \E pick \in [early -> UNION {SlotOptions(d) : d \in EarlyDates}] :
            /\ \A d \in early : pick[d] \in SlotOptions(d)
            /\ fixtures = {pick[d] : d \in early} \cup LaterBlock(k)
    /\ inserts = 0
    /\ computed = NotComputed
    /\ batch = NoBatch
    /\ IdlePredictor
    /\ env = [HAS_XGBOOST |-> TRUE, HAS_LIGHTGBM |-> TRUE]
    /\ IdleBacktest
    /\ IdleRest

NextBatch ==
    \/ \E data \in SyncCandidates : Upsert(data)
    \/ \E fixture \in {f \in fixtures : f.status = "NS"}, r \in ResultInputs :
          UpdateResult(fixture.id, r[1], r[2])
    \/ \E a \in TrainingArgs : GenerateTrainingDataset(a[1], a[2], a[3])
    \/ \E fs \in PredictionLists : GeneratePredictionFeatures(fs)

SpecBatch == InitBatch /\ [][NextBatch]_vars

NextPredictor ==
    \/ \E ds \in Datasets, calfail \in CalFailSets, fails \in FailSets :
          Fit(ds, calfail, fails)
    \/ Save
    \/ Load
    \/ \E use_calibration \in BOOLEAN : LoadNew(use_calibration)
    \/ \E X \in Inputs, fails \in FailSets : PredictProba(X, fails)
    \/ \E X \in Inputs, fails \in FailSets : PredictProbaLoaded(X, fails)
    \/ \E columns \in ColumnLists, fails \in FailSets, names_checked \in BOOLEAN :
          PredictProbaFrame(columns, <<1>>, fails, names_checked)
    \/ \E X \in Inputs, fails \in FailSets : Predict(X, fails)
    \/ \E X \in Inputs, fails \in FailSets : GetConfidence(X, fails)
    \/ \E X \in Frames, c \in Thresholds, fails \in FailSets :
          GetPredictions(X, c, fails)
    \/ \E ds \in Datasets, save_model \in BOOLEAN : Train(ds, save_model)

SpecPredictor == InitPredictor /\ [][NextPredictor]_vars

\* the datasets handed to backtest: rows listed newest first, several rows
\* may share a date, a row may lack its target
RowTypes == {[target |-> 1, kind |-> 1], [target |-> 0, kind |-> 2],
             [target |-> None, kind |-> 1]}

BacktestDatasets ==
    UNION {
      {[i \in 1..n |-> [date |-> d[i], target |-> t[i].target, kind |-> t[i].kind]] :
          d \in {d \in [1..n -> 1..MaxDate] :
                     \A i \in 1..n : i < n => d[i] >= d[i + 1]},
          t \in [1..n -> RowTypes]} : n \in 0..MaxRows }

InitBacktest ==
    /\ IdleBacktest
    /\ IdleRest
    /\ env \in [HAS_XGBOOST : {TRUE}, HAS_LIGHTGBM : BOOLEAN]
    /\ IdlePredictor
    /\ fixtures = {} /\ inserts = 0 /\ computed = NotComputed
    /\ batch = NoBatch

NextBacktest ==
    \/ /\ bt.pc = "idle"
       /\ \E df \in BacktestDatasets, min_train_samples \in 1..2,
             test_window_days \in 0..2, top_n \in 1..2 :
            BacktestStart(df, min_train_samples, test_window_days, Rat(3, 4), top_n)
    \/ \E calfail \in CalFailSets, fails \in FailSets :
         BacktestIteration(calfail, fails)

SpecBacktest == InitBacktest /\ [][NextBacktest]_vars

\* backtest with any parameter values, zero and negative ones included; the
\* loop is a sequential program, so an enabled iteration is taken
NextBacktestLoop ==
    \/ /\ bt.pc = "idle"
       /\ \E df \in BacktestDatasets, min_train_samples \in (-1)..(MaxRows + 1),
             test_window_days \in (-2)..2 :
            BacktestStart(df, min_train_samples, test_window_days, Rat(3, 4), 1)
    \/ \E calfail \in CalFailSets, fails \in FailSets :
         BacktestIteration(calfail, fails)

SpecBacktestLoop ==
    /\ InitBacktest
    /\ [][NextBacktestLoop]_vars
    /\ WF_vars(\E calfail \in CalFailSets, fails \in FailSets :
                  BacktestIteration(calfail, fails))

\* one window of the backtest, evaluated with a fitted predictor, on the
\* datasets of up to MaxWindowRows rows of distinct dates
MaxWindowRows == 5
WindowDatasets ==
    UNION {
      {reset_index([i \in 1..n |-> [date |-> i, target |-> t[i].target,
                                    kind |-> t[i].kind]]) :
          t \in [1..n -> RowTypes]} : n \in 3..MaxWindowRows }

NextWindow ==
    /\ bt.pc = "idle"
    /\ \E df \in WindowDatasets, min_train_samples \in 2..3,
          test_window_days \in 1..3, top_n \in 1..3, calfail \in CalFailSets,
          fails \in FailSets :
          BacktestWindow(df, min_train_samples, test_window_days, Rat(3, 4),
                         top_n, calfail, fails)

SpecWindow == InitBacktest /\ [][NextWindow]_vars

\* the datasets handed to cross_validate: rows with a target, of both
\* classes or of one, listed newest first, several rows may share a date
CVDatasets ==
    UNION {
      {[i \in 1..n |-> [date |-> d[i], target |-> t[i], kind |-> 1]] :
          d \in {d \in [1..n -> 1..MaxCVRows] :
                     \A i \in 1..n : i < n => d[i] >= d[i + 1]},
          t \in [1..n -> {0, 1}]} : n \in 2..MaxCVRows }

CVSplits == {2, 3}

InitTrainer ==
    /\ IdleBacktest
    /\ IdleRest
    /\ env \in [HAS_XGBOOST : {TRUE}, HAS_LIGHTGBM : BOOLEAN]
    /\ IdlePredictor
    /\ fixtures = {} /\ inserts = 0 /\ computed = NotComputed
    /\ batch = NoBatch

\* the backtest results handed to calculate_roi, and the odds and stakes
MaxBets == 3
RoiResults ==
    UNION {[1..n -> [correct : BOOLEAN, confidence : {Rat(3, 4), Rat(4, 5)}]] :
              n \in 0..MaxBets}
RoiOdds   == {NoSeries, Series(<<Float(2), Rat(3, 2), Float(3)>>)}
RoiStakes == {Float(1), Float(2)}

NextTrainer ==
    \/ \E df \in CVDatasets, n_splits \in CVSplits : CrossValidate(df, n_splits)
    \/ \E results \in RoiResults, odds_home \in RoiOdds, odds_away \in RoiOdds,
          stake \in RoiStakes :
          CalculateRoi(results, odds_home, odds_away, stake)

SpecTrainer == InitTrainer /\ [][NextTrainer]_vars

(***************************************************************************)
(* The API cache: any sequence of calls on one APICache while the clock    *)
(* runs                                                                    *)
(***************************************************************************)
ParamDicts ==
    {<<>>, << <<"league", 39>>, <<"season", 2024>> >>,
     << <<"season", 2024>>, <<"league", 39>> >>}
CacheData == {[response |-> <<1>>], [response |-> <<1, 2>>]}
CacheTTLs == {1, 2}

InitCache ==
    /\ IdleBacktest
    /\ IdleRest
    /\ env = [HAS_XGBOOST |-> TRUE, HAS_LIGHTGBM |-> TRUE]
    /\ IdlePredictor
    /\ fixtures = {} /\ inserts = 0 /\ computed = NotComputed
    /\ batch = NoBatch

NextCache ==
    \/ \E endpoint \in Endpoints, params \in ParamDicts : CacheGet(endpoint, params)
    \/ \E endpoint \in Endpoints, params \in ParamDicts, data \in CacheData,
          ttl \in CacheTTLs : CacheSet(endpoint, params, data, ttl)
    \/ \E endpoint \in Endpoints \cup {"None"}, pattern \in Patterns \cup {"None"} :
          CacheInvalidate(endpoint, pattern)
    \/ CacheClear
    \/ CacheCleanupExpired
    \/ Tick

SpecCache == InitCache /\ [][NextCache]_vars

(***************************************************************************)
(* The training jobs: any interleaving of the requests with the steps of   *)
(* the task threads                                                        *)
(***************************************************************************)
InitJobs ==
    /\ IdleBacktest
    /\ IdleRest
    /\ env = [HAS_XGBOOST |-> TRUE, HAS_LIGHTGBM |-> TRUE]
    /\ IdlePredictor
    /\ fixtures = {} /\ inserts = 0 /\ computed = NotComputed
    /\ batch = NoBatch

NextJobs ==
    \/ StartCollect
    \/ StartFeatures
    \/ StartTraining
    \/ CancelTraining
    \/ ResetState
    \/ \E t \in DOMAIN threads : TaskLog(t)
    \/ \E t \in DOMAIN threads : TaskProgress(t)
    \/ \E t \in DOMAIN threads : TaskComplete(t)
    \/ \E t \in DOMAIN threads : TaskFail(t)

SpecJobs == InitJobs /\ [][NextJobs]_vars

(***************************************************************************)
(* Properties of the feature pipeline                                      *)
(***************************************************************************)
\* C1 - no leakage: inserting further finished fixtures dated on or after the
\* date of a stored fixture M leaves the MatchFeatures computed for M (form,
\* venue sub-form, standings, H2H, derived features) unchanged.
C1_NoLeakage ==
    computed.fixture_id # None =>
        calculate_fixture_features(get_by_id(computed.fixture_id)) = computed.result

\* C4 - cold start: when a team of the match has no finished match before the
\* match date, the pipeline returns a feature vector without raising, with all
\* form features of that team 0.0, its standing position 10 with points, goal
\* difference and points per game 0, h2h_total_matches 0 and
\* h2h_home_win_rate 0.5.
C4_ColdStart ==
    computed.fixture_id # None =>
        LET m == get_by_id(computed.fixture_id)
            Prior(t) == {f \in fixtures : /\ Involves(f, t)
                                          /\ f.status = "FT"
                                          /\ f.date < m.date}
            cold == {side \in {<<m.home_team_id, "home_">>,
                               <<m.away_team_id, "away_">>} : Prior(side[1]) = {}}
            FormKeys(prefix) ==
                {prefix \o stem \o ToString(w) :
                    stem \in {"points_last_", "points_avg_", "goals_for_last_",
                              "goals_against_last_", "goals_for_avg_",
                              "goals_against_avg_", "goal_diff_", "wins_last_",
                              "draws_last_", "losses_last_", "win_rate_",
                              "clean_sheets_", "failed_to_score_"},
                    w \in {3, 5, 10}}
                \cup {prefix \o stem :
                        stem \in {"win_streak", "unbeaten_streak", "winless_streak",
                                  "form_points_5", "form_goals_avg"}}
            r == computed.result
        IN  cold # {} =>
              /\ r.ok
              /\ \A side \in cold :
                   /\ \A key \in FormKeys(side[2]) :
                         /\ key \in DOMAIN r.value.features
                         /\ r.value.features[key] = Float(0)
                   /\ r.value.features[side[2] \o "position"] = Float(10)
                   /\ r.value.features[side[2] \o "points"] = Float(0)
                   /\ r.value.features[side[2] \o "goal_diff"] = Float(0)
                   /\ r.value.features[side[2] \o "ppg"] = Float(0)
              /\ r.value.features["h2h_total_matches"] = Float(0)
              /\ r.value.features["h2h_home_win_rate"] = Rat(1, 2)

\* C5 - streaks are counted from the most recent match backwards over the
\* team's at most 10 most recent finished matches: win_streak is the length of
\* the run of wins starting at the most recent match, unbeaten_streak the
\* length of the run without a loss, winless_streak the length of the run
\* without a win; matches beyond the first break never contribute.
C5_Streaks ==
    (computed.fixture_id # None /\ computed.result.ok) =>
        LET m == get_by_id(computed.fixture_id)
            features == computed.result.value.features
        IN  \A side \in {<<m.home_team_id, "home_">>, <<m.away_team_id, "away_">>} :
              LET t  == side[1]
                  fs == _get_recent_fixtures(t, m.date, 10)
                  WinRun == Cardinality({i \in DOMAIN fs :
                                \A j \in 1..i : won(fs[j], t)})
                  UnbeatenRun == Cardinality({i \in DOMAIN fs :
                                     \A j \in 1..i : ~lost(fs[j], t)})
                  WinlessRun == Cardinality({i \in DOMAIN fs :
                                    \A j \in 1..i : ~won(fs[j], t)})
              IN  /\ features[side[2] \o "win_streak"] =
                         Float(WinRun)
                  /\ features[side[2] \o "unbeaten_streak"] =
                         Float(UnbeatenRun)
                  /\ features[side[2] \o "winless_streak"] =
                         Float(WinlessRun)

\* C6 - for a team with a finished match in the league/season before the
\* cutoff, the position feature is the team's 1-indexed position among all
\* teams that have played in that league/season before the cutoff, sorted by
\* points descending, then goal difference descending (teams level on both
\* may take any of the positions they share).
C6_Position ==
    (computed.fixture_id # None /\ computed.result.ok) =>
        LET m == get_by_id(computed.fixture_id)
            features == computed.result.value.features
            rows == {f \in fixtures : /\ f.league_id = m.league_id
                                      /\ f.season = m.season
                                      /\ f.status = "FT"
                                      /\ f.date < m.date}
            teams == {f.home_team_id : f \in rows} \cup {f.away_team_id : f \in rows}
            Of(t) == {f \in rows : Involves(f, t)}
            Pts(t) == 3 * Cardinality({f \in Of(t) : won(f, t)})
                        + Cardinality({f \in Of(t) : drew(f, t)})
            Gd(t) == SumFn(Of(t), [f \in Of(t) |->
                                      GoalsFor(f, t) - GoalsAgainst(f, t)])
            Above(u, t) == Pts(u) > Pts(t) \/ (Pts(u) = Pts(t) /\ Gd(u) > Gd(t))
            Level(u, t) == Pts(u) = Pts(t) /\ Gd(u) = Gd(t)
        IN  \A side \in {<<m.home_team_id, "home_">>, <<m.away_team_id, "away_">>} :
              LET t == side[1]
                  above == Cardinality({u \in teams : Above(u, t)})
                  level == Cardinality({u \in teams : Level(u, t)})
              IN  Of(t) # {} =>
                    \E k \in (above + 1)..(above + level) :
                        features[side[2] \o "position"] = Float(k)

(***************************************************************************)
(* Properties of the ensemble predictor                                    *)
(***************************************************************************)
\* C2 - fit on a freshly constructed EnsemblePredictor with a valid two-class
\* dataset runs to completion: every base classifier is fitted, calibration
\* is applied, the metrics are stored, the predictor is in the fitted state
\* when fit returns, and a following predict_proba on it succeeds.
C2_FitCompletes ==
    (last.op = "fit" /\ last.fresh /\ last.ds # TooSmall) =>
        /\ last.out.ok
        /\ pred.is_fitted
        /\ \A n \in Available(env) : n \in DOMAIN pred.models /\ pred.models[n].fitted
        /\ pred.use_calibration =>
             \A n \in Available(env) : n \in DOMAIN pred.calibrated_models
        /\ pred.metadata.metrics = last.ds
        /\ \A X \in Inputs : predict_proba(pred, X, {}).ok

C7_TrainBeforeTest ==
    bt.pc # "idle" =>
        LET X == prepare_data(bt.df)
        IN  \A j \in DOMAIN bt.windows :
              \A a \in 1..bt.windows[j].train_end,
                 b \in (bt.windows[j].train_end + 1)..bt.windows[j].test_end :
                    X[a].date < X[b].date

\* C8 - the backtest visits the test windows [t, t+k), t starting at
\* min_train_samples and advancing by k, each with a new predictor trained on
\* the rows [0, t); it stops when the next window would exceed the dataset,
\* so every evaluated window has exactly k rows and the run ends having
\* visited all of them (it may only stop before on a training slice that is
\* not a valid two-class dataset).
C8_WalkForward ==
    bt.pc # "idle" =>
        LET X  == prepare_data(bt.df)
            k  == bt.test_window_days
            t0 == bt.min_train_samples
            n  == IF k = 0 \/ Len(X) < t0 THEN 0 ELSE (Len(X) - t0) \div k
            expected == [j \in 1..n |-> [train_end |-> t0 + (j - 1) * k,
                                         test_end  |-> t0 + j * k]]
            visited  == [j \in DOMAIN bt.windows |->
                            [train_end |-> bt.windows[j].train_end,
                             test_end  |-> bt.windows[j].test_end]]
        IN  /\ Len(visited) <= n
            /\ visited = SubSeq(expected, 1, Len(visited))
            /\ bt.pc = "done" => visited = expected
            /\ bt.pc = "raised" =>
                 TrainingSet(SubSeq(X, 1, visited[Len(visited)].train_end)) = TooSmall

\* C9 - in every backtest window the recorded predictions number at most
\* top_n, each has confidence >= min_confidence, and they are the top_n
\* highest-confidence predictions of the window, predictions of equal
\* confidence ranked in their original row order.
C9_TopN ==
    bt.pc # "idle" =>
        LET X == prepare_data(bt.df)
        IN  \A j \in DOMAIN bt.windows :
              LET w == bt.windows[j]
                  X_tr   == SubSeq(X, 1, w.train_end)
                  X_test == SubSeq(X, w.train_end + 1, w.test_end)
                  trained == [fit(NewPredictor("backtest", TRUE), env,
                                  TrainingSet(X_tr), w.calfail, w.fails).obj
                                EXCEPT !.is_fitted = TRUE]
                  probas == predict_proba(trained,
                                [i \in DOMAIN X_test |-> X_test[i].kind], w.fails)
                  cand == ConfidentRows(probas.value, bt.min_confidence)
                  Rank(i) == 1 + Cardinality({h \in DOMAIN cand :
                      \/ RatLT(cand[i].confidence, cand[h].confidence)
                      \/ (cand[h].confidence = cand[i].confidence /\ h < i)})
                  top == {i \in DOMAIN cand : Rank(i) <= bt.top_n}
                  recorded == SelectSeq(bt.results,
                                        LAMBDA r : r.train_size = w.train_end)
              IN  (TrainingSet(X_tr) # TooSmall /\ probas.ok) =>
                    /\ Len(recorded) <= bt.top_n
                    /\ Len(recorded) = Cardinality(top)
                    /\ \A i \in DOMAIN recorded :
                         /\ RatGE(recorded[i].confidence, bt.min_confidence)
                         /\ \E c \in top :
                              /\ Rank(c) = i
                              /\ recorded[i].source = X_test[cand[c].index + 1].id
                              /\ recorded[i].confidence = cand[c].confidence

(***************************************************************************)
(* Properties of inference                                                 *)
(***************************************************************************)
\* C11 - probability simplex: for every row of an input, the two class
\* probabilities predict_proba returns are each in [0, 1] and sum to 1, and
\* the confidence, the larger of the two, lies in [0.5, 1]; also when a base
\* model fails at prediction time and is left out of the average.
C11_Simplex ==
    /\ (last.op = "predict_proba" /\ last.out.ok) =>
          \A r \in DOMAIN last.X :
             LET away == last.out.value[r][1]
                 home == last.out.value[r][2]
             IN  /\ RatLE(Float(0), away) /\ RatLE(away, Float(1))
                 /\ RatLE(Float(0), home) /\ RatLE(home, Float(1))
                 /\ RatAdd(away, home) = Float(1)
                 /\ RatLE(Rat(1, 2), RatMax(away, home))
                 /\ RatLE(RatMax(away, home), Float(1))
    /\ (last.op = "get_confidence" /\ last.out.ok) =>
          \A r \in DOMAIN last.X :
             /\ RatLE(Rat(1, 2), last.out.value[r])
             /\ RatLE(last.out.value[r], Float(1))
             /\ last.out.value[r] =
                   RatMax(predict_proba(pred, last.X, last.fails).value[r][1],
                          predict_proba(pred, last.X, last.fails).value[r][2])

\* get_confidence returned for several rows although exactly one base model
\* raised and the others answered
C11_Witness ==
    /\ last.op = "get_confidence" /\ last.out.ok
    /\ Cardinality(last.fails) = 1
    /\ last.fails \subseteq Available(env)
    /\ Cardinality(Available(env)) = 3
    /\ Len(last.X) >= 2

\* C12 - confidence filter: every row get_predictions_with_confidence(X, c)
\* returns has confidence >= c, no row of X with confidence >= c is missing,
\* the rows are in descending order of confidence, and each returned row
\* carries the positional index of the input row it was computed from.
C12_ConfidenceFilter ==
    (last.op = "get_predictions_with_confidence" /\ last.out.ok) =>
        LET df     == last.out.value
            probas == predict_proba(pred, last.X, last.fails).value
            conf   == get_confidence(pred, last.X, last.fails).value
            label  == predict(pred, last.X, last.fails).value
        IN  /\ \A i \in DOMAIN df : RatGE(df[i].confidence, last.min_confidence)
            /\ \A r \in DOMAIN last.X :
                  RatGE(conf[r], last.min_confidence) =>
                      \E i \in DOMAIN df : df[i].index = r - 1
            /\ \A i, j \in DOMAIN df : i # j => df[i].index # df[j].index
            /\ \A i \in DOMAIN df :
                  i < Len(df) => RatGE(df[i].confidence, df[i + 1].confidence)
            /\ \A i \in DOMAIN df :
                  /\ df[i].index + 1 \in DOMAIN last.X
                  /\ df[i].confidence = conf[df[i].index + 1]
                  /\ df[i].prob_home = probas[df[i].index + 1][2]
                  /\ df[i].prob_away = probas[df[i].index + 1][1]
                  /\ df[i].predicted_winner =
                        (IF label[df[i].index + 1] = 1 THEN 1 ELSE 2)

\* a call that dropped a row below the threshold and returned the others in
\* an order other than the input order, their confidences different
C12_Witness ==
    /\ last.op = "get_predictions_with_confidence" /\ last.out.ok
    /\ Len(last.out.value) = 2
    /\ Len(last.X) = 3
    /\ last.out.value[1].index > last.out.value[2].index
    /\ last.out.value[1].confidence # last.out.value[2].confidence

\* the error predict_proba raises on a predictor that is not fitted
NotFitted == Raise("ValueError: El modelo no esta entrenado")

\* C13 - inference before training fails loudly: predict_proba, predict,
\* get_confidence and get_predictions_with_confidence called on a predictor
\* on which neither fit nor load has completed raise the not-fitted error and
\* return nothing; a fit that ended with an error on a fresh instance leaves
\* the predictor in that state.
C13_NotFitted ==
    /\ ( /\ last.op \in {"predict_proba", "predict", "get_confidence",
                         "get_predictions_with_confidence"}
         /\ last.on = "p"
         /\ ~completed ) => last.out = NotFitted
    /\ (last.op \in {"fit", "train"} /\ last.fresh /\ ~last.out.ok) =>
          /\ ~pred.is_fitted
          /\ \A X \in Inputs, fails \in FailSets :
                /\ predict_proba(pred, X, fails) = NotFitted
                /\ predict(pred, X, fails) = NotFitted
                /\ get_confidence(pred, X, fails) = NotFitted
                /\ \A c \in Thresholds :
                      get_predictions_with_confidence(pred, X, c, fails) = NotFitted

\* get_predictions_with_confidence called on a predictor whose only fit
\* ended with an error after the scaler and the estimators had been fitted
C13_Witness ==
    /\ last.op = "get_predictions_with_confidence"
    /\ ~completed
    /\ fits >= 1
    /\ pred.scaler.fitted
    /\ last.out = NotFitted

C15_WeightsNormalised ==
    (last.op \in {"fit", "train"}) =>
        /\ DOMAIN pred.weights = Available(env)
        /\ DOMAIN pred.models = DOMAIN pred.weights
        /\ RatSumFn(DOMAIN pred.weights, pred.weights) = Float(1)
        /\ \A n \in DOMAIN pred.weights : RatLT(Float(0), pred.weights[n])

\* a second fit on the same instance, one optional classifier available
C15_Witness ==
    /\ last.op = "fit" /\ ~last.fresh
    /\ fits = 2
    /\ Cardinality(Available(env)) = 2

(***************************************************************************)
(* Properties of the stored fixtures and their features                    *)
(***************************************************************************)
\* C16 - label assignment: for every match stored through the collector's
\* parse-and-upsert path or through update_result, the target of its feature
\* vector is 1 if it is finished with home_goals > away_goals, 0 if it is
\* finished with away_goals > home_goals, and absent if it is a draw or not
\* finished, in every reachable store state.
C16_Label ==
    LET Expected(f) ==
            IF f.status = "FT" /\ f.home_goals # None /\ f.away_goals # None
            THEN IF f.home_goals > f.away_goals THEN 1
                 ELSE IF f.away_goals > f.home_goals THEN 0
                 ELSE None
            ELSE None
    IN  /\ \A f \in fixtures : Target(f) = Expected(f)
        /\ (computed.fixture_id # None /\ computed.result.ok) =>
              computed.result.value.target =
                  Expected(get_by_id(computed.fixture_id))

\* the features of a fixture computed after update_result gave it a home win
C16_Witness ==
    /\ inserts = 1
    /\ computed.fixture_id # None /\ computed.result.ok
    /\ computed.result.value.target = 1
    /\ LET f == get_by_id(computed.fixture_id)
       IN  /\ f.league_id = 1 /\ f.status = "FT"
           /\ f.home_goals = 1 /\ f.away_goals = 0
    /\ \E g \in fixtures : g.status = "FT" /\ Target(g) = None

\* the teams of the store and the cutoff dates the H2H features are compared at
Teams      == 1..4
H2HCutoffs == {2, 3, 4, LastDate + 2}

\* C17 - H2H features are computed from the perspective of today's home team
\* whoever played at home in each past meeting: over the up to 10 most recent
\* finished meetings (either venue order) dated strictly before the cutoff,
\* h2h_features(A, B, D) and h2h_features(B, A, D) give the same total and
\* draw counts, swapped home / away win counts and goal averages and negated
\* dominance, with home_wins + away_wins + draws = total and dominance within
\* [-1, 1].
C17_H2HSymmetry ==
    /\ \A A \in Teams, B \in Teams, D \in H2HCutoffs :
          A < B =>
            LET ab == calculate_h2h_features(A, B, D)
                ba == calculate_h2h_features(B, A, D)
                meetings == {f \in fixtures :
                               /\ f.date < D /\ f.status = "FT"
                               /\ {f.home_team_id, f.away_team_id} = {A, B}}
            IN  /\ ab["h2h_total_matches"] = Float(Min(H2HLimit, Cardinality(meetings)))
                /\ ba["h2h_total_matches"] = ab["h2h_total_matches"]
                /\ ba["h2h_draws"] = ab["h2h_draws"]
                /\ ba["h2h_home_wins"] = ab["h2h_away_wins"]
                /\ ba["h2h_away_wins"] = ab["h2h_home_wins"]
                /\ ba["h2h_home_goals_avg"] = ab["h2h_away_goals_avg"]
                /\ ba["h2h_away_goals_avg"] = ab["h2h_home_goals_avg"]
                /\ RatAdd(RatAdd(ab["h2h_home_wins"], ab["h2h_away_wins"]),
                          ab["h2h_draws"]) = ab["h2h_total_matches"]
                /\ DOMAIN ba = DOMAIN ab
                /\ "h2h_dominance" \in DOMAIN ab <=> meetings # {}
                /\ meetings # {} =>
                      /\ ba["h2h_dominance"] = RatSub(Float(0), ab["h2h_dominance"])
                      /\ RatLE(Float(-1), ab["h2h_dominance"])
                      /\ RatLE(ab["h2h_dominance"], Float(1))
    /\ (computed.fixture_id # None /\ computed.result.ok) =>
          LET m  == get_by_id(computed.fixture_id)
              ab == calculate_h2h_features(m.home_team_id, m.away_team_id, m.date)
          IN  \A k \in DOMAIN ab : computed.result.value.features[k] = ab[k]

\* the features of a fixture whose teams met before in both venue orders,
\* today's home team having won more of the meetings
C17_Witness ==
    /\ computed.fixture_id # None /\ computed.result.ok
    /\ LET m == get_by_id(computed.fixture_id)
           before == {f \in fixtures :
                         /\ f.date < m.date /\ f.status = "FT"
                         /\ {f.home_team_id, f.away_team_id} =
                                {m.home_team_id, m.away_team_id}}
       IN  /\ \E f \in before : f.home_team_id = m.home_team_id
           /\ \E f \in before : f.home_team_id = m.away_team_id
           /\ RatLT(Float(0), computed.result.value.features["h2h_dominance"])

\* the cutoff dates the form and standing features are examined at
FormCutoffs == {2, 3, 4, LastDate + 2}

\* five results of team 7, newest first: W 3-0, W 2-1, D 1-1, L 0-2, W 1-0
FormExample ==
    << _parse_fixture(5, 1, 5, 7, 8, 3, 0, "FT"),
       _parse_fixture(4, 1, 4, 8, 7, 1, 2, "FT"),
       _parse_fixture(3, 1, 3, 7, 8, 1, 1, "FT"),
       _parse_fixture(2, 1, 2, 8, 7, 2, 0, "FT"),
       _parse_fixture(1, 1, 1, 7, 8, 1, 0, "FT") >>

\* C18 - for each window size w in {3, 5, 10} the form features of a team
\* are computed over exactly the n = min(w, available) most recent finished
\* matches involving the team dated strictly before the cutoff, from the
\* team's own side whatever its venue: wins + draws + losses = n, points =
\* 3*wins + draws, goal_diff = goals_for - goals_against, win_rate = wins/n.
\* Results W 3-0, W 2-1, D 1-1, L 0-2, W 1-0 give points_last_5 = 10, wins 3,
\* draws 1, losses 1, goals_for 7, goals_against 4, win_rate_5 = 0.6.
C18_FormWindows ==
    /\ \A t \in Teams, D \in FormCutoffs :
          LET ft == calculate_form_features(t, D, "home_")
              S  == {f \in fixtures : /\ f.date < D /\ f.status = "FT"
                                      /\ t \in {f.home_team_id, f.away_team_id}}
              Own(f) == IF f.home_team_id = t THEN f.home_goals ELSE f.away_goals
              Opp(f) == IF f.home_team_id = t THEN f.away_goals ELSE f.home_goals
          IN  \A i \in DOMAIN WINDOWS :
                LET w == WINDOWS[i]
                    k == ToString(w)
                    R == {f \in S : Cardinality({g \in S : g.date > f.date}) < w}
                    n == Cardinality(R)
                    wins   == Cardinality({f \in R : Own(f) > Opp(f)})
                    draws  == Cardinality({f \in R : Own(f) = Opp(f)})
                    losses == Cardinality({f \in R : Own(f) < Opp(f)})
                    gf == SumFn(R, [f \in R |-> Own(f)])
                    ga == SumFn(R, [f \in R |-> Opp(f)])
                IN  /\ n = Min(w, Cardinality(S))
                    /\ ft["home_wins_last_" \o k] = Float(wins)
                    /\ ft["home_draws_last_" \o k] = Float(draws)
                    /\ ft["home_losses_last_" \o k] = Float(losses)
                    /\ wins + draws + losses = n
                    /\ ft["home_points_last_" \o k] = Float(3 * wins + draws)
                    /\ ft["home_goals_for_last_" \o k] = Float(gf)
                    /\ ft["home_goals_against_last_" \o k] = Float(ga)
                    /\ ft["home_goal_diff_" \o k] = Float(gf - ga)
                    /\ ft["home_win_rate_" \o k] =
                          (IF n = 0 THEN Float(0) ELSE Rat(wins, n))
    /\ (computed.fixture_id # None /\ computed.result.ok) =>
          LET m  == get_by_id(computed.fixture_id)
              hf == calculate_form_features(m.home_team_id, m.date, "home_")
              af == calculate_form_features(m.away_team_id, m.date, "away_")
          IN  /\ \A k \in DOMAIN hf : computed.result.value.features[k] = hf[k]
              /\ \A k \in DOMAIN af : computed.result.value.features[k] = af[k]
    /\ LET ex == WindowFeatures(FormExample, 7, "", 5)
       IN  /\ ex["points_last_5"] = Float(10)
           /\ ex["wins_last_5"] = Float(3)
           /\ ex["draws_last_5"] = Float(1)
           /\ ex["losses_last_5"] = Float(1)
           /\ ex["goals_for_last_5"] = Float(7)
           /\ ex["goals_against_last_5"] = Float(4)
           /\ ex["win_rate_5"] = Rat(6, 10)

\* the features of a fixture whose home team has more than ten finished
\* matches at both venues and whose away team has fewer than three
C18_Witness ==
    /\ computed.fixture_id # None /\ computed.result.ok
    /\ LET ft == computed.result.value.features
       IN  /\ RatLT(ft["home_points_last_5"], ft["home_points_last_10"])
           /\ RatLT(Float(0), ft["home_wins_last_10"])
           /\ RatLT(Float(0), ft["home_draws_last_10"])
           /\ RatLT(Float(0), ft["away_losses_last_3"])
           /\ RatLT(RatAdd(RatAdd(ft["away_wins_last_3"], ft["away_draws_last_3"]),
                           ft["away_losses_last_3"]), Float(3))

\* the leagues and the season the standing statistics are examined for
StandingLeagues == {1, 2}
StandingSeason  == 2024

\* C19 - the standing statistics of a team are recomputed from the fixture
\* store and from nothing else: they count exactly the finished matches of
\* the given league and season dated strictly before the cutoff in which the
\* team played, with played = wins + draws + losses = home_played +
\* away_played, points = 3*wins + draws and goal difference = goals_for -
\* goals_against; without such a match there is no standing.
C19_StandingStats ==
    /\ \A t \in Teams, lg \in StandingLeagues, D \in FormCutoffs :
          LET st == _get_standing(t, lg, StandingSeason, D)
              S  == {f \in fixtures : /\ f.league_id = lg
                                      /\ f.season = StandingSeason
                                      /\ f.status = "FT"
                                      /\ f.date < D
                                      /\ t \in {f.home_team_id, f.away_team_id}}
              Own(f) == IF f.home_team_id = t THEN OrZero(f.home_goals)
                                              ELSE OrZero(f.away_goals)
              Opp(f) == IF f.home_team_id = t THEN OrZero(f.away_goals)
                                              ELSE OrZero(f.home_goals)
              wins   == Cardinality({f \in S : Own(f) > Opp(f)})
              draws  == Cardinality({f \in S : Own(f) = Opp(f)})
              losses == Cardinality({f \in S : Own(f) < Opp(f)})
              gf == SumFn(S, [f \in S |-> Own(f)])
              ga == SumFn(S, [f \in S |-> Opp(f)])
          IN  IF S = {} THEN st = NoneDict
              ELSE /\ st # NoneDict
                   /\ st.played = Cardinality(S)
                   /\ st.win = wins /\ st.draw = draws /\ st.lose = losses
                   /\ st.played = st.win + st.draw + st.lose
                   /\ st.played = st.home_played + st.away_played
                   /\ st.home_played =
                         Cardinality({f \in S : f.home_team_id = t})
                   /\ st.points = 3 * st.win + st.draw
                   /\ st.goals_for = gf /\ st.goals_against = ga
                   /\ st.goals_diff = st.goals_for - st.goals_against
    /\ (computed.fixture_id # None /\ computed.result.ok) =>
          LET m  == get_by_id(computed.fixture_id)
              hs == calculate_standing_features(m.home_team_id, m.league_id,
                                                m.season, "home_", m.date)
              as == calculate_standing_features(m.away_team_id, m.league_id,
                                                m.season, "away_", m.date)
          IN  /\ \A k \in DOMAIN hs : computed.result.value.features[k] = hs[k]
              /\ \A k \in DOMAIN as : computed.result.value.features[k] = as[k]

\* the features of a league fixture whose home team has earlier finished
\* league matches at both venues, and also a match the standing must leave
\* out: one of another league, and one that is not earlier or not finished
C19_Witness ==
    /\ computed.fixture_id # None /\ computed.result.ok
    /\ LET m  == get_by_id(computed.fixture_id)
           t  == m.home_team_id
           st == _get_standing(t, m.league_id, m.season, m.date)
           ft == computed.result.value.features
       IN  /\ st # NoneDict
           /\ st.home_played > 0 /\ st.away_played > 0
           /\ st.win > 0 /\ st.lose > 0
           /\ ft["home_played"] = Float(st.played)
           /\ \E f \in fixtures : /\ Involves(f, t) /\ f.status = "FT"
                                  /\ f.date < m.date
                                  /\ f.league_id # m.league_id
           /\ \E f \in fixtures : /\ Involves(f, t) /\ f.league_id = m.league_id
                                  /\ f.id # m.id
                                  /\ (f.date >= m.date \/ f.status # "FT")

\* the fixtures the last batch run went through
BatchInput ==
    IF batch.op = "generate_training_dataset"
    THEN {f \in fixtures :
            /\ f.status = "FT"
            /\ (batch.exclude_draws => f.result # None)
            /\ (batch.league_ids # {} => f.league_id \in batch.league_ids)
            /\ (batch.season # None => f.season = batch.season)}
    ELSE {batch.fixtures[i] : i \in DOMAIN batch.fixtures}

BatchSucceeded == {f \in BatchInput : calculate_fixture_features(f).ok}
BatchSkipped   == BatchInput \ BatchSucceeded

\* the fixture ids of the rows the last batch run returned
BatchRowIds ==
    LET rows == batch.out.value
    IN  IF batch.op = "generate_training_dataset"
        THEN {rows[i]["fixture_id"] : i \in DOMAIN rows}
        ELSE {rows[i].fixture_id : i \in DOMAIN rows}

\* the batch returns whatever fails inside it, with exactly one row for each
\* match whose features were computed and a warning for each other match
BatchRowsExact ==
    batch.op # "none" =>
        /\ batch.out.ok
        /\ Len(batch.out.value) = Cardinality(BatchSucceeded)
        /\ BatchRowIds = {f.id : f \in BatchSucceeded}
        /\ \A f \in BatchSkipped :
              \E i \in DOMAIN batch.log :
                  /\ batch.log[i].level = "warning"
                  /\ batch.log[i].fixture_id = f.id
        /\ Cardinality({i \in DOMAIN batch.log : batch.log[i].level = "warning"})
              = Cardinality(BatchSkipped)

\* some message of a batch that went through at least one match states both
\* the number of matches processed and the number of matches skipped
BatchReportsCounts ==
    (batch.op # "none" /\ BatchInput # {}) =>
        \E i \in DOMAIN batch.log :
            LET m == batch.log[i]
            IN  /\ m.level = "info"
                /\ \E k1, k2 \in DOMAIN m.counts :
                      /\ k1 # k2
                      /\ m.counts[k1] = Cardinality(BatchSucceeded)
                      /\ m.counts[k2] = Cardinality(BatchSkipped)

\* C20 - batch dataset construction is best-effort: a failure while computing
\* the features of one match is caught and logged and never aborts the
\* batch; the resulting dataset contains exactly one row for each match whose
\* computation succeeded, and the batch reports how many matches were skipped
\* versus processed.
C20_BestEffort == BatchRowsExact /\ BatchReportsCounts

\* a batch that skipped one match and processed another
C20_Mixed ==
    /\ batch.op # "none"
    /\ BatchSkipped # {}
    /\ BatchSucceeded # {}

(***************************************************************************)
(* Properties of cross-validation, ROI, the cache and the training jobs    *)
(***************************************************************************)
\* a frame with enough rows for the folds, every training part of which
\* holds both classes, in strictly increasing date order
CVTrainable(X, n_splits) ==
    LET splits == TimeSeriesSplit(n_splits, Len(X))
    IN  /\ splits.ok
        /\ \A k \in DOMAIN splits.value :
              TrainingSet(SubSeq(X, 1, Cardinality(splits.value[k].train_idx)))
                  # TooSmall
        /\ \A i, j \in DOMAIN X : i < j => X[i].date < X[j].date

\* C21 - cross_validate splits the date-ordered dataset into K equal
\* contiguous folds; each fold is used once as test, its model is a fresh
\* predictor trained only on rows strictly earlier in time than the fold's
\* test rows, the metrics reported for the fold are computed on that fold's
\* test rows, and the result is the mean and standard deviation of each
\* metric across the folds.
C21_CrossValidate ==
    (tr.op = "cross_validate" /\ CVTrainable(tr.X, tr.n_splits)) =>
        /\ tr.out.ok
        /\ Len(tr.folds) = tr.n_splits
        /\ \A k \in DOMAIN tr.folds :
              LET f == tr.folds[k]
              IN  /\ f.fresh
                  /\ f.test_idx # {}
                  /\ \A i \in f.test_idx : \A j \in DOMAIN tr.folds :
                        j # k => i \notin tr.folds[j].test_idx
                  /\ Cardinality(f.test_idx) = Cardinality(tr.folds[1].test_idx)
                  /\ \A i \in f.train_idx, j \in f.test_idx :
                        tr.X[i].date < tr.X[j].date
                  /\ f.scored_on = f.test_idx
        /\ tr.out.value.metric =
              np_mean_list([k \in DOMAIN tr.folds |-> Float(tr.folds[k].metrics)])

\* C22 - a calibration failure of one base model does not abort fit: with
\* and without the failure fit ends the same way; the model whose calibration
\* failed is entered uncalibrated in the models used for inference, the others
\* calibrated (the linear model as it is), and after the calibration step the
\* models used for inference, the base models and the weights have the same
\* keys.  (An inference call leaves the predictor object as it is: the fits
\* are examined on the objects as they are before it.)
C22_CalibrationFallback ==
    /\ \A ds \in Datasets \ {TooSmall}, calfail \in CalFailSets, fails \in FailSets :
          calls > 0 \/
          LET r  == fit(pred, env, ds, calfail, fails)
              r0 == fit(pred, env, ds, {}, fails)
              q  == r.obj
          IN  /\ r.out = r0.out
              /\ q.use_calibration =>
                    /\ DOMAIN q.calibrated_models = DOMAIN q.models
                    /\ DOMAIN q.calibrated_models = DOMAIN q.weights
                    /\ \A n \in DOMAIN q.models :
                          q.calibrated_models[n] =
                             (IF n = "logreg" \/ n \in calfail
                              THEN Fitted(n, ds)
                              ELSE Calibrated(Fitted(n, ds)))
                    /\ \A n \in DOMAIN q.models, row \in 1..3 :
                          n \in calfail =>
                             ModelProba(q.calibrated_models[n], row)
                                = ModelProba(q.models[n], row)
    /\ (last.op = "fit" /\ last.ds # TooSmall /\ pred.use_calibration) =>
          /\ DOMAIN pred.calibrated_models = DOMAIN pred.models
          /\ DOMAIN pred.calibrated_models = DOMAIN pred.weights

\* a fit that returned although the calibration of one tree model had
\* failed: that model is kept uncalibrated, the other tree model calibrated
C22_Witness ==
    /\ last.op = "fit" /\ last.out.ok
    /\ pred.use_calibration
    /\ {"xgboost", "lightgbm"} \subseteq DOMAIN pred.calibrated_models
    /\ pred.calibrated_models["xgboost"] = pred.models["xgboost"]
    /\ pred.calibrated_models["lightgbm"] = Calibrated(pred.models["lightgbm"])

\* C23 - fixed-width feature vector: the set of feature names in the feature
\* map produced for a match is the same for every match, whatever history
\* exists; missing history only changes values to their defaults, never the
\* set of keys.
C23_FixedWidth ==
    (computed.fixture_id # None /\ computed.result.ok) =>
        \A g \in Requested :
            calculate_fixture_features(g).ok =>
                DOMAIN calculate_fixture_features(g).value.features
                    = DOMAIN computed.result.value.features

SuppliedOdds ==
    IF tr.odds_home # NoSeries THEN np_mean_list(tr.odds_home.values)
    ELSE IF tr.odds_away # NoSeries THEN np_mean_list(tr.odds_away.values)
    ELSE FallbackOdds

\* correct hits and total predictions of the last calculate_roi call
RoiCorrect ==
    Cardinality({i \in DOMAIN tr.backtest_results : tr.backtest_results[i].correct})
RoiTotal == Len(tr.backtest_results)

Live(endpoint, params) ==
    /\ Request(endpoint, params) \in DOMAIN stored
    /\ now - stored[Request(endpoint, params)].timestamp
          <= stored[Request(endpoint, params)].ttl

SourceRow(r) ==
    CHOOSE row \in {prepare_data(bt.df)[i] : i \in DOMAIN prepare_data(bt.df)} :
        row.id = r.source

C28_Terminates ==
    /\ (bt.pc = "loop") ~> (bt.pc \in {"done", "raised"})
    /\ [][(bt.pc = "loop" /\ bt'.pc = "loop") => bt'.start_idx > bt.start_idx]_vars
    /\ []((/\ bt.pc # "idle"
           /\ \/ bt.test_window_days <= 0
              \/ bt.min_train_samples >= Len(prepare_data(bt.df)))
          => /\ bt.windows = <<>>
             /\ bt.results = <<>>
             /\ bt.pc \in {"loop", "done"})

\* C29 - over any interleaving of the collect, features, train, cancel and
\* reset requests with the task threads, at most one task thread is
\* executing at any time, and a task thread only writes the shared training
\* state while that state is running and was started for this very task.
C29_MutualExclusion ==
    /\ [](Cardinality(Alive) <= 1)
    /\ [][\A t \in DOMAIN threads :
             threads'[t] # threads[t] =>
                /\ training_state.status = "running"
                /\ training_state.started_at = t]_vars

\* C30 - once the training state is failed (by fail() of a task or by the
\* cancel request) or completed, no step of a task thread changes its
\* status, error or result: they stay until a request starts a new task
\* (or resets the state); a cancelled task never turns the status into
\* completed.
C30_TerminalStable ==
    [][(/\ training_state.status \in {"failed", "completed"}
        /\ threads' # threads
        /\ Len(threads') = Len(threads))
       => /\ training_state'.status = training_state.status
          /\ training_state'.error = training_state.error
          /\ training_state'.result = training_state.result]_vars

====
